---- MODULE Spec2Model ----
(***************************************************************************)
(* Model of visarepo: the commit fetcher goroutine (Model.fetcher), the    *)
(* buffered channel processedCommitsChan, the git rev-list child process   *)
(* feeding the fetcher through a pipe, and the Bubble Tea update loop      *)
(* (Model.Init, Model.Update followed by Model.View).                      *)
(***************************************************************************)
EXTENDS Integers, Sequences, FiniteSets, Bags, TLC

(* ---------------------------------------------------------------------- *)
(* Bounds of the model                                                     *)
(* ---------------------------------------------------------------------- *)
\* longest rev-list output explored by the specification of the whole
\* program
MaxHashes == 2
\* lines the pipe holds: git rev-list blocks writing more while nobody reads
PipeCap == 1
\* largest diff scroll offset explored by the specification of the whole
\* program
MaxScroll == 1
\* largest diff scroll offset explored by the diff specification
DiffScrolls == 2
\* length of the rev-list output in the back-pressure specification
\* (more than ChanCap so that the channel fills)
LongHashes == 102
\* longest rev-list output explored by the fetcher specifications
FetchHashes == 3
\* longest rev-list output explored by the statistics specification
StatHashes == 2
\* longest rev-list output explored by the diff specification
DiffHashes == 2
\* most computations of one commit's diff that are counted
MaxComputations == 2
\* most dots set on a canvas in the canvas specification
MaxDots == 8
\* length of the rev-list output explored by the year specification
YearHashes == 3
\* longest rev-list output explored by the replay specification
ReplayHashes == 3
\* longest rev-list output explored by the graph specification
GraphHashes == 2

(* ---------------------------------------------------------------------- *)
(* Program constants                                                       *)
(* ---------------------------------------------------------------------- *)
\* make(chan *commitInfo, 100)
ChanCap == 100
\* for i := 0; i < len(topContributors) && i < 5; i++
TopCount == 5

\* r := 0x2800, the first code point of the braille patterns
BrailleBase == 10240
\* if graphHeight < 5 { graphHeight = 5 }
MinGraphHeight == 5
\* if height < 10 { return "Not enough space" }
MinChangesHeight == 10
\* m.graphColumns <= 10
MinGraphColumns == 10

notInDiffView == "notInDiffView"
inDiffView == "inDiffView"

(* ---------------------------------------------------------------------- *)
(* The repository (input of the fetcher)                                   *)
(* ---------------------------------------------------------------------- *)
FStat(a, d) == [Addition |-> a, Deletion |-> d]

\* Commit objects a repository may hold.  Month, Weekday (Sunday = 0) and
\* Hour are those of the author date, the hour in local time.  PatchStats[i] is patch.Stats() of
\* the commit's tree against the tree of parent i-1; EmptyTreeStats is the
\* patch against the empty tree.
RootCommit ==
  [Kind |-> "R", NumParents |-> 0, Author |-> "ann", Year |-> 2020,
   Month |-> 12, Weekday |-> 0, Hour |-> 23,
   PatchStats |-> << >>, EmptyTreeStats |-> << FStat(3, 0) >>]
PlainCommit ==
  [Kind |-> "A", NumParents |-> 1, Author |-> "bob", Year |-> 2021,
   Month |-> 1, Weekday |-> 1, Hour |-> 0,
   PatchStats |-> << << FStat(7, 2), FStat(3, 0) >> >>,
   EmptyTreeStats |-> << FStat(13, 0) >>]
MergeCommit ==
  [Kind |-> "B", NumParents |-> 2, Author |-> "ann", Year |-> 2022,
   Month |-> 12, Weekday |-> 6, Hour |-> 23,
   PatchStats |-> << << FStat(0, 5) >>, << FStat(4, 1), FStat(1, 1) >> >>,
   EmptyTreeStats |-> << FStat(8, 0) >>]
CommitObjects == {RootCommit, PlainCommit, MergeCommit}
\* a commit whose tree is the tree of its first parent (git commit
\* --allow-empty): the patch has no file and its text is empty
EmptyCommit ==
  [Kind |-> "E", NumParents |-> 1, Author |-> "bob", Year |-> 2022,
   Month |-> 6, Weekday |-> 3, Hour |-> 12,
   PatchStats |-> << << >> >>, EmptyTreeStats |-> << FStat(13, 0) >>]

\* The lookup of the fetcher's loop body that fails for a commit.
FailPoints == {"commit", "parent", "ctree", "ptree", "patch"}
NoFail == "none"

\* What a line of the rev-list output may resolve to: a commit object and the
\* lookup that fails for it, if any.  A commit without parents has no parent
\* or patch to look up.
RepoEntries ==
  {e \in [obj : CommitObjects, fail : FailPoints \cup {NoFail}] :
      e.obj.NumParents = 0 => e.fail \in {NoFail, "commit"}}

\* The entries of a repository in which every lookup succeeds.
ReadableEntries == {e \in RepoEntries : e.fail = NoFail}

\* The entries of a repository of readable root and single-parent commits.
PlainEntries == {e \in ReadableEntries : e.obj \in {RootCommit, PlainCommit}}

\* The entries of a repository in which two authors have the same churn.
StatEntries ==
  {[obj |-> o, fail |-> NoFail] : o \in {RootCommit, PlainCommit, EmptyCommit}}

\* The entries of a repository with commits that change nothing.
DiffEntries == {[obj |-> o, fail |-> NoFail] : o \in {PlainCommit, EmptyCommit}}

(* ---------------------------------------------------------------------- *)
(* Helpers                                                                 *)
(* ---------------------------------------------------------------------- *)
RECURSIVE SumAdditions(_)
SumAdditions(stats) ==
  IF stats = << >> THEN 0
  ELSE Head(stats).Addition + SumAdditions(Tail(stats))

RECURSIVE SumDeletions(_)
SumDeletions(stats) ==
  IF stats = << >> THEN 0
  ELSE Head(stats).Deletion + SumDeletions(Tail(stats))

NoRecord == [Hash |-> 0]

\* text of the unified diff of the commit object of kind k: patch.String()
DiffTextOf(k) == IF k = "E" THEN "" ELSE "diff-" \o k


(* ---------------------------------------------------------------------- *)
(* BrailleCanvas                                                           *)
(* ---------------------------------------------------------------------- *)
\* NewBrailleCanvas: buffer[y*Width + x] is the dot in column x of row y
NewBrailleCanvas(width, height) ==
  [Width |-> width, Height |-> height,
   buffer |-> [i \in 0..(width * height - 1) |-> FALSE]]

NoCanvas == NewBrailleCanvas(0, 0)

\* x < 0 || x >= c.Width || y < 0 || y >= c.Height
OutOfCanvas(c, x, y) == x < 0 \/ x >= c.Width \/ y < 0 \/ y >= c.Height

\* (c *BrailleCanvas) Set
CanvasSet(c, x, y) ==
  IF OutOfCanvas(c, x, y) THEN c
  ELSE [c EXCEPT !.buffer[y * c.Width + x] = TRUE]

\* the canvas after Set(p[1], p[2]) for every p of pts (Set only turns dots
\* on, so the order of the calls does not matter)
CanvasSetAll(c, pts) ==
  [c EXCEPT !.buffer =
     [i \in DOMAIN c.buffer |->
        c.buffer[i] \/ << i % c.Width, i \div c.Width >> \in pts]]

\* (c *BrailleCanvas) get
CanvasGet(c, x, y) ==
  IF OutOfCanvas(c, x, y) THEN FALSE ELSE c.buffer[y * c.Width + x]

\* r |= b, for a single bit b
OrBit(r, b) == IF (r \div b) % 2 = 1 THEN r ELSE r + b

\* String: the rune written for the block whose top left dot is (x, y)
GlyphRowMajor(c, x, y) ==
  LET r0 == BrailleBase
      r1 == IF CanvasGet(c, x, y) THEN OrBit(r0, 1) ELSE r0
      r2 == IF CanvasGet(c, x + 1, y) THEN OrBit(r1, 2) ELSE r1
      r3 == IF CanvasGet(c, x, y + 1) THEN OrBit(r2, 4) ELSE r2
      r4 == IF CanvasGet(c, x + 1, y + 1) THEN OrBit(r3, 8) ELSE r3
      r5 == IF CanvasGet(c, x, y + 2) THEN OrBit(r4, 16) ELSE r4
      r6 == IF CanvasGet(c, x + 1, y + 2) THEN OrBit(r5, 32) ELSE r5
      r7 == IF CanvasGet(c, x, y + 3) THEN OrBit(r6, 64) ELSE r6
  IN IF CanvasGet(c, x + 1, y + 3) THEN OrBit(r7, 128) ELSE r7
Glyph(c, x, y) ==
  LET r0 == BrailleBase
      r1 == IF CanvasGet(c, x, y) THEN OrBit(r0, 1) ELSE r0
      r2 == IF CanvasGet(c, x, y + 1) THEN OrBit(r1, 2) ELSE r1
      r3 == IF CanvasGet(c, x, y + 2) THEN OrBit(r2, 4) ELSE r2
      r4 == IF CanvasGet(c, x + 1, y) THEN OrBit(r3, 8) ELSE r3
      r5 == IF CanvasGet(c, x + 1, y + 1) THEN OrBit(r4, 16) ELSE r4
      r6 == IF CanvasGet(c, x + 1, y + 2) THEN OrBit(r5, 32) ELSE r5
      r7 == IF CanvasGet(c, x, y + 3) THEN OrBit(r6, 64) ELSE r6
  IN IF CanvasGet(c, x + 1, y + 3) THEN OrBit(r7, 128) ELSE r7

\* (c *BrailleCanvas) String: the runes of each line, for y := 0; y <
\* c.Height; y += 4 and x := 0; x < c.Width; x += 2
CanvasString(c) ==
  [row \in 1..((c.Height + 3) \div 4) |->
     [col \in 1..((c.Width + 1) \div 2) |->
        Glyph(c, 2 * (col - 1), 4 * (row - 1))]]

\* what a graph rendering returns: a placeholder text, or the lines drawn
Placeholder(text) == [text |-> text, rows |-> << >>]
Drawn(rows) == [text |-> "", rows |-> rows]
NoGraph == [text |-> "", rows |-> << >>]

(* ---------------------------------------------------------------------- *)
(* State                                                                   *)
(* ---------------------------------------------------------------------- *)
VARIABLES
  \* Config
  commitLimit,          \* config.CommitLimit
  \* the fetcher goroutine and its rev-list child process
  fpc,                  \* position of Model.fetcher
  repoSet,              \* m.repo has been assigned
  linesLeft,            \* lines of rev-list output the scanner has not read yet
  scanned,              \* per line read so far: the commit's kind, or "unreadable"
  pending,              \* the record of the channel send in progress
  commitCount,          \* commitCount of Model.fetcher
  \* the channel and the messages sent to the program
  chan,                 \* processedCommitsChan: the buffered records
  chanClosed,           \* close(m.processedCommitsChan) has run
  errSent,              \* errMsg values sent by the fetcher so far
  errPending,           \* errMsg values not yet handled by Update
  ticks,                \* progressTickCmd commands pending
  \* the Model fields owned by the update loop
  ui,                   \* "init", "running", "quit" or "panic"
  commits,
  currentCommitIndex,
  width,
  height,
  graphColumns,
  networkGraphHeight,
  maxAdditions,
  maxDeletions,
  autoProgress,
  loadingComplete,
  diffState,
  currentDiff,
  diffScroll,
  entryIndex,           \* history: the cursor when the diff view was opened
  diffComputations,     \* history: per commit, the diffs computed from the repository
  displayedStatsYear,
  availableStatYears,
  currentStatYearIndex,
  topContributors,      \* the contributor rows last drawn by renderDeveloperStats
  \* the graphs of the "Commit Changes" panel
  canvas,               \* the BrailleCanvas last drawn on
  brailleGraph,         \* what renderBrailleGraph last returned
  changesGraph          \* what renderCombinedChangesGraph last returned

\* the graphs are drawn in steps of their own
graphVars == << canvas, brailleGraph, changesGraph >>
\* what no step of the fetcher and no message handled by Update changes
cfgVars == << commitLimit, graphVars >>
fetcherVars ==
  << fpc, repoSet, linesLeft, scanned, pending, commitCount >>
chanVars == << chan, chanClosed >>
msgVars == << errSent, errPending, ticks >>
layoutVars == << width, height, graphColumns, networkGraphHeight >>
listVars == << commits, maxAdditions, maxDeletions, loadingComplete >>
diffVars ==
  << diffState, currentDiff, diffScroll, entryIndex, diffComputations >>
yearVars == << displayedStatsYear, availableStatYears, currentStatYearIndex >>
uiVars ==
  << ui, currentCommitIndex, autoProgress, layoutVars, listVars, diffVars,
     yearVars, topContributors >>
vars == << cfgVars, fetcherVars, chanVars, msgVars, uiVars >>

\* values of config.CommitLimit explored (loadConfig's default is -1)
CommitLimits == {-1, 1}

\* InitialModel(cfg) followed by SetProgram(p); nothing has run yet.
InitialModel(limits) ==
  /\ commitLimit \in limits
  /\ fpc = "idle"
  /\ repoSet = FALSE
  /\ linesLeft = 0
  /\ scanned = << >>
  /\ pending = NoRecord
  /\ commitCount = 0
  /\ chan = << >>
  /\ chanClosed = FALSE
  /\ errSent = 0
  /\ errPending = 0
  /\ ticks = 0
  /\ ui = "init"
  /\ commits = << >>
  /\ currentCommitIndex = 0
  /\ width = 0
  /\ height = 0
  /\ graphColumns = 0
  /\ networkGraphHeight = 0
  /\ maxAdditions = 0
  /\ maxDeletions = 0
  /\ autoProgress \in BOOLEAN
  /\ loadingComplete = FALSE
  /\ diffState = notInDiffView
  /\ currentDiff = ""
  /\ diffScroll = 0
  /\ entryIndex = -1
  /\ diffComputations = << >>
  /\ displayedStatsYear = 0
  /\ availableStatYears = << >>
  /\ currentStatYearIndex = 0
  /\ topContributors = << >>

\* the program before it runs: no graph has been drawn
InitWith(limits) ==
  /\ InitialModel(limits)
  /\ canvas = NoCanvas
  /\ brailleGraph = NoGraph
  /\ changesGraph = NoGraph

Init == InitWith(CommitLimits)

\* The process is alive: main has not returned from p.Run().
Alive == ui \in {"init", "running"}

(* ---------------------------------------------------------------------- *)
(* Model.fetcher                                                           *)
(* ---------------------------------------------------------------------- *)
\* m.program.Send(errMsg{...}); return  (with the deferred close)
FetchFatalSilent ==
  /\ chanClosed' = TRUE
  /\ fpc' = "done"
  /\ UNCHANGED << chan, ticks, errSent, errPending >>
FetchFatal ==
  /\ errSent' = errSent + 1
  /\ errPending' = errPending + 1
  /\ chanClosed' = TRUE
  /\ fpc' = "done"
  /\ UNCHANGED << chan, ticks >>

\* git.PlainOpenWithOptions; m.repo = r
FetchOpenKeepsRepo(ok) ==
  /\ Alive
  /\ fpc = "open"
  /\ IF ok
       THEN /\ fpc' = "pipe"
            /\ UNCHANGED << chanVars, msgVars >>
       ELSE FetchFatal
  /\ UNCHANGED << repoSet, linesLeft, scanned, pending, commitCount, cfgVars,
                  uiVars >>
FetchOpen(ok) ==
  /\ Alive
  /\ fpc = "open"
  /\ IF ok
       THEN /\ repoSet' = TRUE
            /\ fpc' = "pipe"
            /\ UNCHANGED << chanVars, msgVars >>
       ELSE /\ FetchFatal
            /\ UNCHANGED repoSet
  /\ UNCHANGED << linesLeft, scanned, pending, commitCount, cfgVars, uiVars >>

\* cmd.StdoutPipe()
FetchPipe(ok) ==
  /\ Alive
  /\ fpc = "pipe"
  /\ IF ok
       THEN /\ fpc' = "start"
            /\ UNCHANGED << chanVars, msgVars >>
       ELSE FetchFatal
  /\ UNCHANGED << repoSet, linesLeft, scanned, pending, commitCount, cfgVars,
                  uiVars >>

\* cmd.Start(): on success git rev-list runs and has n lines to write
FetchStart(ok, n) ==
  /\ Alive
  /\ fpc = "start"
  /\ IF ok
       THEN /\ fpc' = "scan"
            /\ linesLeft' = n
            /\ UNCHANGED << chanVars, msgVars >>
       ELSE /\ FetchFatal
            /\ UNCHANGED linesLeft
  /\ UNCHANGED << repoSet, scanned, pending, commitCount, cfgVars, uiVars >>

\* index (1-based) of the parent the commit is diffed against: commit.Parent(0)
DiffParent(obj) == 1

\* filesChanged, additions, deletions, churn of the loop body
CommitStatsAlways(obj) ==
  LET stats == IF obj.NumParents > 0 THEN obj.PatchStats[DiffParent(obj)]
               ELSE obj.EmptyTreeStats
  IN [Files |-> Len(stats), Additions |-> SumAdditions(stats),
      Deletions |-> SumDeletions(stats),
      Churn |-> SumAdditions(stats) + SumDeletions(stats)]
CommitStats(obj) ==
  IF obj.NumParents > 0
    THEN LET stats == obj.PatchStats[DiffParent(obj)]
         IN [Files |-> Len(stats), Additions |-> SumAdditions(stats),
             Deletions |-> SumDeletions(stats),
             Churn |-> SumAdditions(stats) + SumDeletions(stats)]
    ELSE [Files |-> 0, Additions |-> 0, Deletions |-> 0, Churn |-> 0]

\* the loop body reaches a `continue`
LookupNeverFails(e) == FALSE
LookupFails(e) ==
  \/ e.fail = "commit"
  \/ /\ e.obj.NumParents > 0
     /\ e.fail \in {"parent", "ctree", "ptree", "patch"}

\* &commitInfo{...} of the channel send
NewRecord(hash, obj) ==
  LET st == CommitStats(obj)
  IN [Hash |-> hash, Kind |-> obj.Kind, Author |-> obj.Author,
      Year |-> obj.Year, Month |-> obj.Month, Weekday |-> obj.Weekday,
      Hour |-> obj.Hour,
      DiffLoaded |-> FALSE, DiffContent |-> "",
      Files |-> st.Files, Additions |-> st.Additions,
      Deletions |-> st.Deletions, Churn |-> st.Churn,
      CumulativeFiles |-> 0, CumulativeAdditions |-> 0,
      CumulativeDeletions |-> 0]

\* what the log keeps of a line read
LogOf(e) == IF e.fail = NoFail THEN e.obj.Kind ELSE "unreadable"

\* scanner.Scan() returns a line, and the loop body up to the channel send
FetchScan(e) ==
  /\ Alive
  /\ fpc = "scan"
  /\ linesLeft > 0
  /\ linesLeft' = linesLeft - 1
  /\ scanned' = Append(scanned, LogOf(e))
  /\ IF LookupFails(e)
       THEN UNCHANGED << fpc, pending >>
       ELSE /\ pending' = NewRecord(Len(scanned) + 1, e.obj)
            /\ fpc' = "send"
  /\ UNCHANGED << repoSet, commitCount, cfgVars, chanVars, msgVars, uiVars >>

\* scanner.Scan() returns false: rev-list has written everything and exited
FetchEOF ==
  /\ Alive
  /\ fpc = "scan"
  /\ linesLeft = 0
  /\ fpc' = "wait"
  /\ UNCHANGED << repoSet, linesLeft, scanned, pending, commitCount, cfgVars,
                  chanVars, msgVars, uiVars >>

\* the channel send may proceed: the buffer has room
SendNeverWaits == TRUE
SendReady == Len(chan) < ChanCap

\* the loop ends after this send
LimitReached(count) == commitLimit > 0 /\ count >= commitLimit

\* the buffer of the channel after the send of rec: first in, first out
EnqueueFirst(q, rec) == << rec >> \o q
Enqueue(q, rec) == Append(q, rec)

\* m.processedCommitsChan <- &commitInfo{...}; commitCount++; the limit test
FetchSend ==
  /\ Alive
  /\ fpc = "send"
  /\ SendReady
  /\ chan' = Enqueue(chan, pending)
  /\ pending' = NoRecord
  /\ commitCount' = commitCount + 1
  /\ fpc' = IF LimitReached(commitCount') THEN "wait" ELSE "scan"
  /\ UNCHANGED << repoSet, linesLeft, scanned, chanClosed, cfgVars, msgVars,
                  uiVars >>

\* git rev-list can exit: what it has left to write fits in the pipe, which
\* nobody reads any more
RevListCanExit == linesLeft <= PipeCap

\* cmd.Wait() returns once rev-list has exited; then the deferred close
FetchWait ==
  /\ Alive
  /\ fpc = "wait"
  /\ RevListCanExit
  /\ chanClosed' = TRUE
  /\ fpc' = "done"
  /\ UNCHANGED << repoSet, linesLeft, scanned, pending, commitCount, chan,
                  cfgVars, msgVars, uiVars >>

(* ---------------------------------------------------------------------- *)
(* Model.View: the fields a redraw writes                                  *)
(* ---------------------------------------------------------------------- *)
SetMax(S) == CHOOSE x \in S : \A y \in S : y <= x

\* sort.Sort(sort.Reverse(sort.IntSlice(years)))
SortDesc(S) ==
  [k \in 1..Cardinality(S) |->
     CHOOSE x \in S : Cardinality({y \in S : y > x}) = k - 1]

\* View: the clamp of m.currentCommitIndex
ViewIndex(ds, cs, idx) ==
  IF ds = inDiffView \/ Len(cs) = 0 THEN idx
  ELSE IF idx >= Len(cs) THEN Len(cs) - 1 ELSE idx

\* renderDeveloperStats: m.availableStatYears
ViewYears(ds, cs, idx, yrs) ==
  IF ds = inDiffView \/ Len(cs) = 0 THEN yrs
  ELSE << 0 >> \o SortDesc({cs[i + 1].Year : i \in 0..idx})

\* renderDeveloperStats: commitsToAnalyze
CommitsToAnalyze(cs, idx, year) ==
  IF year = 0
    THEN SubSeq(cs, 1, idx + 1)
    ELSE SelectSeq(SubSeq(cs, 1, idx + 1), LAMBDA c : c.Year = year)

\* the rows of the three histograms, in the order they are drawn
Months == [i \in 1..12 |-> i]
WeekdaysNoSunday == << 1, 2, 3, 4, 5, 6, 6 >>
Weekdays == << 1, 2, 3, 4, 5, 6, 0 >>
Hours == [i \in 1..24 |-> i - 1]

\* monthCounts, weekdayCounts, hourCounts: the commits of cs whose field f
\* is v
CountWhere(cs, f, v) == Cardinality({i \in 1..Len(cs) : cs[i][f] = v})

\* the counts drawn for the rows
Buckets(cs, f, rows) == [b \in 1..Len(rows) |-> CountWhere(cs, f, rows[b])]

\* the indices (1-based) of commitsToAnalyze in cs
AnalyzedAt(cs, idx, year) ==
  {i \in 1..(idx + 1) : year = 0 \/ cs[i].Year = year}

\* authorChurn: its keys, over the commits of cs at the indices idxs
AuthorsOf(cs, idxs) == {cs[i].Author : i \in idxs}

\* authorChurn[a]: the sum of the churn of the commits by a (the bag holds
\* commit i as often as its churn)
ChurnOf(cs, idxs, a) ==
  BagCardinality([i \in {j \in idxs : cs[j].Author = a /\ cs[j].Churn > 0}
                    |-> cs[i].Churn])

\* the orders in which the elements of S can be listed
Orders(S) ==
  {q \in [1..Cardinality(S) -> S] : \A i, j \in DOMAIN q : i # j => q[i] # q[j]}

\* for i := 0; i < len(topContributors) && i < 5: the rows drawn
TopRows(q) ==
  [i \in 1..(IF Len(q) < TopCount THEN Len(q) ELSE TopCount) |-> q[i]]

\* topContributors after sort.Slice: the authorStat values are appended in
\* the order the map is iterated, which Go leaves unspecified, and the sort
\* compares the churn alone and is not stable; equal churns end in any order
TopLists(cs, idxs) ==
  LET stats == {[name |-> a, churn |-> ChurnOf(cs, idxs, a)] :
                  a \in AuthorsOf(cs, idxs)}
  IN {TopRows(q) : q \in {o \in Orders(stats) :
        \A i, j \in DOMAIN o : i < j => o[i].churn >= o[j].churn}}

\* renderDeveloperStats: the contributor lists it may draw
ViewTop(ds, cs, idx, year, old) ==
  IF ds = inDiffView \/ Len(cs) = 0 THEN {old}
  ELSE TopLists(cs, AnalyzedAt(cs, idx, year))

\* Update has left the index at idx and the selected year at year; the
\* program then calls View
RenderWith(idx, year) ==
  /\ currentCommitIndex' = ViewIndex(diffState', commits', idx)
  /\ availableStatYears' =
       ViewYears(diffState', commits', ViewIndex(diffState', commits', idx),
                 availableStatYears)
  /\ topContributors' \in
       ViewTop(diffState', commits', ViewIndex(diffState', commits', idx),
               year, topContributors)

\* Update has left the index at idx and the selected year as it was
Render(idx) == RenderWith(idx, displayedStatsYear)

(* ---------------------------------------------------------------------- *)
(* Model.View: the graphs of the "Commit Changes" panel                    *)
(* ---------------------------------------------------------------------- *)
\* View: changesPanelHeight - 3, the height passed to the graph
GraphHeightOf(h) ==
  LET statsPanelHeight == 8
      changesPanelHeight == ((h * 2) \div 3) - 10
      timelinePanelHeight == h - statsPanelHeight - changesPanelHeight
  IN (IF timelinePanelHeight < 8
        THEN h - statsPanelHeight - 8
        ELSE changesPanelHeight) - 3

\* if graphHeight < 5 { graphHeight = 5 }
ClampGraphHeight(graphHeight) ==
  IF graphHeight < MinGraphHeight THEN MinGraphHeight ELSE graphHeight

\* math.Log1p, in thousandths, of the additions and deletions that occur
Log1pMilli(n) ==
  CASE n = 0 -> 0
    [] n = 2 -> 1099
    [] n = 5 -> 1792
    [] n = 10 -> 2398

\* logMaxAdd, logMaxDel: if logMaxAdd == 0 { logMaxAdd = 1 }
LogMaxUnscaled(maxV) == 1000
LogMax(maxV) == IF Log1pMilli(maxV) = 0 THEN 1000 ELSE Log1pMilli(maxV)

\* scaledAdditions, scaledDeletions:
\* int((math.Log1p(v) / logMax) * float64(zeroLine-1)) if v > 0, else 0
Scaled(v, maxV, zeroLine) ==
  IF v > 0 THEN (Log1pMilli(v) * (zeroLine - 1)) \div LogMax(maxV) ELSE 0

\* startIndex := max(0, len(displayCommits)-windowSize)
StartIndex == 
  IF currentCommitIndex + 1 - graphColumns > 0
    THEN currentCommitIndex + 1 - graphColumns
    ELSE 0

\* col := m.graphColumns - (endIndex - i), for the commit at index i
ColumnOf(i) == graphColumns - (currentCommitIndex + 1 - i)

\* the commits drawn: those of the window whose column is on the graph
DrawnCommits ==
  {i \in StartIndex..currentCommitIndex :
     ColumnOf(i) >= 0 /\ ColumnOf(i) < graphColumns}

\* renderBrailleGraph: the dots set for the commit at index i
BarDots(i, zeroLine) ==
  LET c == commits[i + 1]
      scaledAdditions == Scaled(c.Additions, maxAdditions, zeroLine)
      scaledDeletions == Scaled(c.Deletions, maxDeletions, zeroLine)
  IN {<< ColumnOf(i) * 2, zeroLine - y >> : y \in 0..(scaledAdditions - 1)}
       \cup
     {<< ColumnOf(i) * 2, zeroLine + y >> : y \in 0..(scaledDeletions - 1)}

\* if len(m.commits) == 0 || m.graphColumns <= 10: "Insufficient data"
InsufficientData == Len(commits) = 0 \/ graphColumns <= MinGraphColumns

\* renderBrailleGraph(graphHeight): the canvas when the bars are drawn
BrailleGraphCanvas(graphHeight) ==
  LET zeroLine == (ClampGraphHeight(graphHeight) * 4) \div 2
  IN CanvasSetAll(NewBrailleCanvas(graphColumns * 2,
                                   ClampGraphHeight(graphHeight) * 4),
                  UNION {BarDots(i, zeroLine) : i \in DrawnCommits})

\* renderLOCGraph: grid[row][col] when it is joined
GridCell(row, col, graphHeight) ==
  LET zeroLine == graphHeight \div 2
      i == currentCommitIndex + 1 - (graphColumns - col)
      scaledAdditions ==
        Scaled(commits[i + 1].Additions, maxAdditions, zeroLine)
      scaledDeletions ==
        Scaled(commits[i + 1].Deletions, maxDeletions, zeroLine)
      bar == IF i = currentCommitIndex THEN "highlight" ELSE "bar"
  IN IF i \notin DrawnCommits
       THEN IF row = zeroLine THEN "axis" ELSE " "
     ELSE IF row = zeroLine
       THEN IF i = currentCommitIndex THEN "current" ELSE "axis"
     ELSE IF row > 0 /\ row < zeroLine /\ zeroLine - row <= scaledAdditions
       THEN bar
     ELSE IF row > zeroLine /\ row - zeroLine <= scaledDeletions THEN bar
     ELSE " "

\* renderLOCGraph(graphHeight)
RenderLOCGraph(graphHeight) ==
  IF InsufficientData
    THEN Placeholder("Insufficient data")
    ELSE Drawn([r \in 1..ClampGraphHeight(graphHeight) |->
                  [k \in 1..graphColumns |->
                     GridCell(r - 1, k - 1, ClampGraphHeight(graphHeight))]])

\* renderCombinedChangesGraph(height)
RenderCombinedChangesGraph(h) ==
  IF h < MinChangesHeight THEN Placeholder("Not enough space")
  ELSE RenderLOCGraph(h)

\* View draws the dashboard: outside the diff view, once a commit is listed
DrawsDashboard == ui = "running" /\ diffState = notInDiffView /\ commits # << >>

\* View: m.renderBrailleGraph(changesPanelHeight - 3)
DrawBrailleGraph ==
  /\ DrawsDashboard
  /\ IF InsufficientData
       THEN /\ brailleGraph' = Placeholder("Insufficient data")
            /\ UNCHANGED canvas
       ELSE /\ canvas' = BrailleGraphCanvas(GraphHeightOf(height))
            /\ brailleGraph' = Drawn(CanvasString(canvas'))
  /\ UNCHANGED << commitLimit, fetcherVars, chanVars, msgVars, uiVars,
                  changesGraph >>

\* View: m.renderCombinedChangesGraph(changesPanelHeight - 3)
DrawChangesGraph ==
  /\ DrawsDashboard
  /\ changesGraph' = RenderCombinedChangesGraph(GraphHeightOf(height))
  /\ UNCHANGED << commitLimit, fetcherVars, chanVars, msgVars, uiVars,
                  canvas, brailleGraph >>

(* ---------------------------------------------------------------------- *)
(* Model.Init                                                              *)
(* ---------------------------------------------------------------------- *)
\* go m.fetcher(); return m.progressTickCmd()  -- and the first View
ProgramInit ==
  /\ ui = "init"
  /\ ui' = "running"
  /\ fpc' = "open"
  /\ ticks' = ticks + 1
  /\ UNCHANGED << repoSet, linesLeft, scanned,
                  pending, commitCount, cfgVars, chanVars, errSent,
                  errPending, autoProgress, layoutVars, listVars, diffVars,
                  displayedStatsYear, currentStatYearIndex >>
  /\ Render(currentCommitIndex)

(* ---------------------------------------------------------------------- *)
(* getDiff                                                                 *)
(* ---------------------------------------------------------------------- *)
ErrorText == "Error getting diff"

\* getDiff(m.repo, commit): the text returned and the record afterwards;
\* ok says whether the repository lookups succeed when they are made
\* (computed: patch.String() was evaluated)
GetDiff(rec, ok) ==
  IF rec.DiffContent # ""
    THEN [text |-> rec.DiffContent, err |-> FALSE, rec |-> rec,
          computed |-> FALSE]
  ELSE IF ~ok
    THEN [text |-> "", err |-> TRUE, rec |-> rec, computed |-> FALSE]
  ELSE [text |-> DiffTextOf(rec.Kind), err |-> FALSE,
        rec |-> [rec EXCEPT !.DiffContent = DiffTextOf(rec.Kind)],
        computed |-> TRUE]

\* how often the diff of commit h has been computed from the repository
Computations(h) ==
  IF h \in DOMAIN diffComputations THEN diffComputations[h] ELSE 0

\* the call of getDiff that returned got is counted
CountDiff(got) ==
  /\ got.computed => Computations(got.rec.Hash) < MaxComputations
  /\ diffComputations' =
       IF got.computed
         THEN (got.rec.Hash :> Computations(got.rec.Hash) + 1) @@ diffComputations
         ELSE diffComputations

\* m.currentDiff after the call
ShownDiffNoError(got) == got.text
ShownDiff(got) == IF got.err THEN ErrorText ELSE got.text

\* renderDiffView: len(strings.Split(m.currentDiff, "\n")), one more than the
\* newlines of the text
LineCount(text) ==
  CASE text = "" -> 1
    [] text = ErrorText -> 1
    [] text = DiffTextOf("A") -> 4
    [] OTHER -> 3

(* ---------------------------------------------------------------------- *)
(* Model.Update: key messages in the diff view                             *)
(* ---------------------------------------------------------------------- *)
Running == ui = "running"

\* case "q", "ctrl+c", "esc", "enter"
KeyDiffLeaveToLast ==
  /\ Running
  /\ diffState = inDiffView
  /\ diffState' = notInDiffView
  /\ entryIndex' = -1
  /\ UNCHANGED << cfgVars, fetcherVars, chanVars, msgVars, ui, autoProgress,
                  layoutVars, listVars, currentDiff, diffScroll,
                  diffComputations, displayedStatsYear,
                  currentStatYearIndex >>
  /\ Render(Len(commits) - 1)
KeyDiffLeaveResumes ==
  /\ Running
  /\ diffState = inDiffView
  /\ diffState' = notInDiffView
  /\ entryIndex' = -1
  /\ autoProgress' = TRUE
  /\ UNCHANGED << cfgVars, fetcherVars, chanVars, msgVars, ui,
                  layoutVars, listVars, currentDiff, diffScroll,
                  diffComputations, displayedStatsYear,
                  currentStatYearIndex >>
  /\ Render(currentCommitIndex)
KeyDiffLeave ==
  /\ Running
  /\ diffState = inDiffView
  /\ diffState' = notInDiffView
  /\ entryIndex' = -1
  /\ UNCHANGED << cfgVars, fetcherVars, chanVars, msgVars, ui, autoProgress,
                  layoutVars, listVars, currentDiff, diffScroll,
                  diffComputations, displayedStatsYear,
                  currentStatYearIndex >>
  /\ Render(currentCommitIndex)

\* case "up", "k"
KeyDiffUp ==
  /\ Running
  /\ diffState = inDiffView
  /\ diffScroll' = IF diffScroll - 1 < 0 THEN 0 ELSE diffScroll - 1
  /\ UNCHANGED << cfgVars, fetcherVars, chanVars, msgVars, ui, autoProgress,
                  layoutVars, listVars, diffState, currentDiff, entryIndex,
                  diffComputations, displayedStatsYear,
                  currentStatYearIndex >>
  /\ Render(currentCommitIndex)

\* case "down", "j"  (offsets up to maxScroll are explored)
KeyDiffDown(maxScroll) ==
  /\ Running
  /\ diffState = inDiffView
  /\ diffScroll + 1 <= maxScroll
  /\ diffScroll' = diffScroll + 1
  /\ UNCHANGED << cfgVars, fetcherVars, chanVars, msgVars, ui, autoProgress,
                  layoutVars, listVars, diffState, currentDiff, entryIndex,
                  diffComputations, displayedStatsYear,
                  currentStatYearIndex >>
  /\ Render(currentCommitIndex)

\* case "pgup"
KeyDiffPgUp ==
  /\ Running
  /\ diffState = inDiffView
  /\ diffScroll' = IF diffScroll - height < 0 THEN 0 ELSE diffScroll - height
  /\ UNCHANGED << cfgVars, fetcherVars, chanVars, msgVars, ui, autoProgress,
                  layoutVars, listVars, diffState, currentDiff, entryIndex,
                  diffComputations, displayedStatsYear,
                  currentStatYearIndex >>
  /\ Render(currentCommitIndex)

\* case "pgdown", " "  (offsets up to maxScroll are explored)
KeyDiffPgDown(maxScroll) ==
  /\ Running
  /\ diffState = inDiffView
  /\ diffScroll + height <= maxScroll
  /\ diffScroll' = diffScroll + height
  /\ UNCHANGED << cfgVars, fetcherVars, chanVars, msgVars, ui, autoProgress,
                  layoutVars, listVars, diffState, currentDiff, entryIndex,
                  diffComputations, displayedStatsYear,
                  currentStatYearIndex >>
  /\ Render(currentCommitIndex)

\* the index after "left"/"h"
PrevIndexWrap(idx, n) ==
  IF idx > 0 THEN idx - 1 ELSE IF n > 0 THEN n - 1 ELSE idx
PrevIndex(idx, n) == IF idx > 0 THEN idx - 1 ELSE idx

\* the index after "right"/"l" in a list of n commits
NextIndexUnbounded(idx, n) == idx + 1
NextIndex(idx, n) == IF idx < n - 1 THEN idx + 1 ELSE idx

\* the body shared by "left" and "right" in the diff view: the cursor moves
\* to idx; a move fetches the diff of the commit now selected
DiffMoveToKeepsScroll(idx, ok) ==
  /\ autoProgress' = FALSE
  /\ IF idx # currentCommitIndex
       THEN LET got == GetDiff(commits[idx + 1], ok)
            IN /\ commits' = [commits EXCEPT ![idx + 1] = got.rec]
               /\ currentDiff' = ShownDiff(got)
               /\ CountDiff(got)
       ELSE UNCHANGED << commits, currentDiff, diffComputations >>
  /\ UNCHANGED << cfgVars, fetcherVars, chanVars, msgVars, ui, layoutVars,
                  maxAdditions, maxDeletions, loadingComplete, diffState,
                  diffScroll, entryIndex, displayedStatsYear,
                  currentStatYearIndex >>
  /\ Render(idx)
DiffMoveTo(idx, ok) ==
  /\ autoProgress' = FALSE
  /\ IF idx # currentCommitIndex
       THEN LET got == GetDiff(commits[idx + 1], ok)
            IN /\ commits' = [commits EXCEPT ![idx + 1] = got.rec]
               /\ currentDiff' = ShownDiff(got)
               /\ diffScroll' = 0
               /\ CountDiff(got)
       ELSE UNCHANGED << commits, currentDiff, diffScroll, diffComputations >>
  /\ UNCHANGED << cfgVars, fetcherVars, chanVars, msgVars, ui, layoutVars,
                  maxAdditions, maxDeletions, loadingComplete, diffState,
                  entryIndex, displayedStatsYear, currentStatYearIndex >>
  /\ Render(idx)

\* case "left", "h"
KeyDiffLeft(ok) ==
  /\ Running
  /\ diffState = inDiffView
  /\ DiffMoveTo(PrevIndex(currentCommitIndex, Len(commits)), ok)

\* case "right", "l"
KeyDiffRight(ok) ==
  /\ Running
  /\ diffState = inDiffView
  /\ DiffMoveTo(NextIndex(currentCommitIndex, Len(commits)), ok)

(* ---------------------------------------------------------------------- *)
(* Model.Update: key messages outside the diff view                        *)
(* ---------------------------------------------------------------------- *)
\* case "q", "ctrl+c": return m, tea.Quit
KeyQuitWaits ==
  /\ Running
  /\ diffState = notInDiffView
  /\ fpc = "done"
  /\ ui' = "quit"
  /\ UNCHANGED << cfgVars, fetcherVars, chanVars, msgVars, autoProgress,
                  layoutVars, listVars, diffVars, displayedStatsYear,
                  currentStatYearIndex >>
  /\ Render(currentCommitIndex)
KeyQuit ==
  /\ Running
  /\ diffState = notInDiffView
  /\ ui' = "quit"
  /\ UNCHANGED << cfgVars, fetcherVars, chanVars, msgVars, autoProgress,
                  layoutVars, listVars, diffVars, displayedStatsYear,
                  currentStatYearIndex >>
  /\ Render(currentCommitIndex)

\* the key "q" or "ctrl+c", in whichever mode it arrives
KeyQ == KeyDiffLeave \/ KeyQuit

\* the body shared by "right" and "left" outside the diff view
MoveToKeepsFlag(idx) ==
  /\ UNCHANGED << cfgVars, fetcherVars, chanVars, msgVars, ui, layoutVars,
                  listVars, diffVars, displayedStatsYear,
                  currentStatYearIndex, autoProgress >>
  /\ Render(idx)
MoveTo(idx) ==
  /\ autoProgress' = FALSE
  /\ UNCHANGED << cfgVars, fetcherVars, chanVars, msgVars, ui, layoutVars,
                  listVars, diffVars, displayedStatsYear,
                  currentStatYearIndex >>
  /\ Render(idx)

\* case "right", "l"
KeyRight ==
  /\ Running
  /\ diffState = notInDiffView
  /\ MoveTo(NextIndex(currentCommitIndex, Len(commits)))

\* case "left", "h"
KeyLeft ==
  /\ Running
  /\ diffState = notInDiffView
  /\ MoveTo(PrevIndex(currentCommitIndex, Len(commits)))

\* the year pointer after "up"/"k" over a year list of length n
YearPrev(i, n) == IF i - 1 < 0 THEN n - 1 ELSE i - 1

\* the year pointer after "down"/"j" over a year list of length n
YearNext(i, n) == (i + 1) % n

\* the body shared by "up" and "down": the pointer moves to i and the year
\* shown is read at it; an index outside the list panics
YearMoveTo(i) ==
  /\ currentStatYearIndex' = i
  /\ IF i < Len(availableStatYears)
       THEN /\ displayedStatsYear' = availableStatYears[i + 1]
            /\ UNCHANGED << ui, diffVars, commits >>
            /\ RenderWith(currentCommitIndex, availableStatYears[i + 1])
       ELSE /\ ui' = "panic"
            /\ UNCHANGED << displayedStatsYear, diffVars, commits,
                            currentCommitIndex, availableStatYears,
                            topContributors >>
  /\ UNCHANGED << cfgVars, fetcherVars, chanVars, msgVars, autoProgress,
                  layoutVars, maxAdditions, maxDeletions, loadingComplete >>

\* case "up", "k"
KeyYearUp ==
  /\ Running
  /\ diffState = notInDiffView
  /\ IF Len(availableStatYears) > 0
       THEN YearMoveTo(YearPrev(currentStatYearIndex, Len(availableStatYears)))
       ELSE /\ UNCHANGED << cfgVars, fetcherVars, chanVars, msgVars, ui,
                            autoProgress, layoutVars, listVars, diffVars,
                            displayedStatsYear, currentStatYearIndex >>
            /\ Render(currentCommitIndex)

\* case "down", "j"
KeyYearDown ==
  /\ Running
  /\ diffState = notInDiffView
  /\ IF Len(availableStatYears) > 0
       THEN YearMoveTo(YearNext(currentStatYearIndex, Len(availableStatYears)))
       ELSE /\ UNCHANGED << cfgVars, fetcherVars, chanVars, msgVars, ui,
                            autoProgress, layoutVars, listVars, diffVars,
                            displayedStatsYear, currentStatYearIndex >>
            /\ Render(currentCommitIndex)

\* m.autoProgress after "p"/" "
Toggled(flag) == ~flag

\* m.currentCommitIndex after "p"/" "
ToggleIndexReset(idx) == 0
ToggleIndex(idx) == idx

\* case "p", " ": m.autoProgress = !m.autoProgress
KeyToggle ==
  /\ Running
  /\ diffState = notInDiffView
  /\ autoProgress' = Toggled(autoProgress)
  /\ UNCHANGED << cfgVars, fetcherVars, chanVars, msgVars, ui, layoutVars,
                  listVars, diffVars, displayedStatsYear,
                  currentStatYearIndex >>
  /\ Render(ToggleIndex(currentCommitIndex))

\* if !m.autoProgress: "enter" opens the diff view
EnterOpensAlways(flag) == TRUE
EnterOpens(flag) == ~flag

\* currentCommit := m.commits[m.currentCommitIndex]: the index of the commit
\* whose diff "enter" fetches, with the cursor at idx
FetchedIndexFirst(idx) == 0
FetchedIndex(idx) == idx

\* case "enter": the diff view opens only while auto-progress is off;
\* m.commits[m.currentCommitIndex] panics on an empty list
KeyEnter(ok) ==
  /\ Running
  /\ diffState = notInDiffView
  /\ IF ~EnterOpens(autoProgress)
       THEN /\ UNCHANGED << ui, commits, diffVars >>
            /\ Render(currentCommitIndex)
       ELSE /\ diffState' = inDiffView
            /\ diffScroll' = 0
            /\ entryIndex' = currentCommitIndex
            /\ IF currentCommitIndex < Len(commits)
                 THEN LET at == FetchedIndex(currentCommitIndex) + 1
                          got == GetDiff(commits[at], ok)
                      IN /\ commits' = [commits EXCEPT ![at] = got.rec]
                         /\ currentDiff' = ShownDiff(got)
                         /\ CountDiff(got)
                         /\ UNCHANGED ui
                         /\ Render(currentCommitIndex)
                 ELSE /\ ui' = "panic"
                      /\ UNCHANGED << commits, currentDiff, currentCommitIndex,
                                      availableStatYears, diffComputations,
                                      topContributors >>
  /\ UNCHANGED << cfgVars, fetcherVars, chanVars, msgVars, autoProgress,
                  layoutVars, maxAdditions, maxDeletions, loadingComplete,
                  displayedStatsYear, currentStatYearIndex >>

(* ---------------------------------------------------------------------- *)
(* Model.Update: tea.WindowSizeMsg                                         *)
(* ---------------------------------------------------------------------- *)
\* terminal sizes explored
WindowSizes == {[Width |-> 50, Height |-> 11]}

ResizeScrollsToTop(msg) ==
  /\ Running
  /\ width' = msg.Width - 10
  /\ height' = msg.Height - 10
  /\ graphColumns' = ((msg.Width - 10) \div 2) - 10
  /\ networkGraphHeight' = ((msg.Height - 10) \div 3) - 10
  /\ diffScroll' = 0
  /\ UNCHANGED << cfgVars, fetcherVars, chanVars, msgVars, ui, autoProgress,
                  listVars, diffState, currentDiff, entryIndex,
                  diffComputations, displayedStatsYear,
                  currentStatYearIndex >>
  /\ Render(currentCommitIndex)
Resize(msg) ==
  /\ Running
  /\ width' = msg.Width - 10
  /\ height' = msg.Height - 10
  /\ graphColumns' = ((msg.Width - 10) \div 2) - 10
  /\ networkGraphHeight' = ((msg.Height - 10) \div 3) - 10
  /\ UNCHANGED << cfgVars, fetcherVars, chanVars, msgVars, ui, autoProgress,
                  listVars, diffVars, displayedStatsYear,
                  currentStatYearIndex >>
  /\ Render(currentCommitIndex)

(* ---------------------------------------------------------------------- *)
(* Model.Update: progressTickMsg                                           *)
(* ---------------------------------------------------------------------- *)
\* newCommit after the cumulative fields are set from the last commit of cs
IntegrateNoCarry(cs, rec) ==
  [rec EXCEPT !.DiffLoaded = TRUE,
              !.CumulativeFiles = rec.Files,
              !.CumulativeAdditions = rec.Additions,
              !.CumulativeDeletions = rec.Deletions]
Integrate(cs, rec) ==
  IF Len(cs) > 0
    THEN LET lastCommit == cs[Len(cs)]
         IN [rec EXCEPT
               !.DiffLoaded = TRUE,
               !.CumulativeFiles = lastCommit.CumulativeFiles + rec.Files,
               !.CumulativeAdditions =
                  lastCommit.CumulativeAdditions + rec.Additions,
               !.CumulativeDeletions =
                  lastCommit.CumulativeDeletions + rec.Deletions]
    ELSE [rec EXCEPT !.DiffLoaded = TRUE,
                     !.CumulativeFiles = rec.Files,
                     !.CumulativeAdditions = rec.Additions,
                     !.CumulativeDeletions = rec.Deletions]

\* if v > m.maxX { m.maxX = v }
UpdateMaxLast(old, v) == v
UpdateMax(old, v) == IF v > old THEN v ELSE old

\* the select has a default case: the receive never waits
TickWaitsForRecord == ~autoProgress \/ Len(chan) > 0 \/ chanClosed
TickReady == TRUE

\* return m, m.progressTickCmd(): the tick commands the case returns
TickCmdsWhenAuto == IF autoProgress THEN 1 ELSE 0
TickCmds == 1

\* newCommit, ok := <-m.processedCommitsChan on an empty channel: ok is false,
\* the channel is closed
ReceivedClosedWhenEmpty == TRUE
ReceivedClosed == chanClosed

\* if m.autoProgress { select { ... } }: the tick tries to receive
TickReceivesAlways == TRUE
TickReceives == autoProgress

\* m.currentCommitIndex = len(m.commits) - 1, after the append to a list of
\* n records with the cursor at idx
IntegratedIndexKeeps(n, idx) == idx
IntegratedIndex(n, idx) == n

\* case progressTickMsg; return m, m.progressTickCmd()
Tick ==
  /\ Running
  /\ ticks > 0
  /\ TickReady
  /\ ticks' = (ticks - 1) + TickCmds
  /\ IF TickReceives /\ Len(chan) > 0
       THEN LET newCommit == Integrate(commits, Head(chan))
            IN /\ chan' = Tail(chan)
               /\ maxAdditions' = UpdateMax(maxAdditions, newCommit.Additions)
               /\ maxDeletions' = UpdateMax(maxDeletions, newCommit.Deletions)
               /\ commits' = Append(commits, newCommit)
               /\ UNCHANGED << chanClosed, loadingComplete >>
               /\ UNCHANGED << diffVars >>
               /\ Render(IntegratedIndex(Len(commits), currentCommitIndex))
       ELSE /\ loadingComplete' =
                 IF TickReceives /\ ReceivedClosed THEN TRUE ELSE loadingComplete
            /\ UNCHANGED << chanVars, commits, maxAdditions, maxDeletions,
                            diffVars >>
            /\ Render(currentCommitIndex)
  /\ UNCHANGED << cfgVars, fetcherVars, errSent, errPending, ui, autoProgress,
                  layoutVars, displayedStatsYear, currentStatYearIndex >>

(* ---------------------------------------------------------------------- *)
(* Model.Update: errMsg                                                    *)
(* ---------------------------------------------------------------------- *)
\* case errMsg: return m, tea.Quit
HandleErr ==
  /\ Running
  /\ errPending > 0
  /\ errPending' = errPending - 1
  /\ ui' = "quit"
  /\ UNCHANGED << cfgVars, fetcherVars, chanVars, errSent, ticks,
                  autoProgress, layoutVars, listVars, diffVars,
                  displayedStatsYear, currentStatYearIndex >>
  /\ Render(currentCommitIndex)

(* ---------------------------------------------------------------------- *)
(* runNonInteractive                                                       *)
(* ---------------------------------------------------------------------- *)
\* the body of `for commit := range model.processedCommitsChan`: commit with
\* its cumulative fields set from the last of allCommits
DrainOneNoCarry(allCommits, commit) ==
  [commit EXCEPT !.CumulativeFiles = commit.Files,
                 !.CumulativeAdditions = commit.Additions,
                 !.CumulativeDeletions = commit.Deletions]
DrainOne(allCommits, commit) ==
  IF Len(allCommits) > 0
    THEN LET lastCommit == allCommits[Len(allCommits)]
         IN [commit EXCEPT
               !.CumulativeFiles = lastCommit.CumulativeFiles + commit.Files,
               !.CumulativeAdditions =
                  lastCommit.CumulativeAdditions + commit.Additions,
               !.CumulativeDeletions =
                  lastCommit.CumulativeDeletions + commit.Deletions]
    ELSE [commit EXCEPT !.CumulativeFiles = commit.Files,
                        !.CumulativeAdditions = commit.Additions,
                        !.CumulativeDeletions = commit.Deletions]

\* the loop over the records received, in the order they are received
RECURSIVE DrainLoop(_, _)
DrainLoop(allCommits, stream) ==
  IF stream = << >> THEN allCommits
  ELSE DrainLoop(Append(allCommits, DrainOne(allCommits, Head(stream))),
                 Tail(stream))

\* allCommits when the channel is closed and drained, for the records
\* `stream` sent by the fetcher
RunNonInteractive(stream) == DrainLoop(<< >>, stream)

(* ---------------------------------------------------------------------- *)
(* Specifications                                                          *)
(* ---------------------------------------------------------------------- *)
\* the steps of the fetcher over a repository whose lines resolve to
\* `entries` and whose listing has at most maxLines lines
FetcherStep(entries, maxLines) ==
  \/ \E ok \in BOOLEAN : FetchOpen(ok)
  \/ \E ok \in BOOLEAN : FetchPipe(ok)
  \/ \E ok \in BOOLEAN : \E n \in 0..maxLines : FetchStart(ok, n)
  \/ \E e \in entries : FetchScan(e)
  \/ FetchEOF
  \/ FetchSend
  \/ FetchWait

DiffKeyStep(maxScroll) ==
  \/ KeyDiffLeave
  \/ KeyDiffUp
  \/ KeyDiffDown(maxScroll)
  \/ KeyDiffPgUp
  \/ KeyDiffPgDown(maxScroll)
  \/ \E ok \in BOOLEAN : KeyDiffLeft(ok)
  \/ \E ok \in BOOLEAN : KeyDiffRight(ok)

KeyStep ==
  \/ KeyQuit
  \/ KeyRight
  \/ KeyLeft
  \/ KeyYearUp
  \/ KeyYearDown
  \/ KeyToggle
  \/ \E ok \in BOOLEAN : KeyEnter(ok)

\* The whole program over repositories in which every commit is readable.
Next ==
  \/ ProgramInit
  \/ FetcherStep(PlainEntries, MaxHashes)
  \/ DiffKeyStep(MaxScroll)
  \/ KeyStep
  \/ \E msg \in WindowSizes : Resize(msg)
  \/ Tick
  \/ HandleErr

Spec == Init /\ [][Next]_vars

\* Back-pressure: one long repository, every commit readable, no limit; the
\* update loop ticks and toggles auto-progress.
RepoLine(i) ==
  [obj |-> CASE i % 3 = 1 -> RootCommit
             [] i % 3 = 2 -> PlainCommit
             [] OTHER -> MergeCommit,
   fail |-> NoFail]

InitLong == InitWith({-1})

NextLong ==
  \/ ProgramInit
  \/ FetchOpen(TRUE)
  \/ FetchPipe(TRUE)
  \/ FetchStart(TRUE, LongHashes)
  \/ FetchScan(RepoLine(Len(scanned) + 1))
  \/ FetchEOF
  \/ FetchSend
  \/ FetchWait
  \/ Tick
  \/ KeyToggle

SpecLong == InitLong /\ [][NextLong]_vars

\* The fetcher over repositories with unreadable commits, with the update
\* loop ticking, toggling auto-progress, answering errMsg and quitting.
NextFetch ==
  \/ ProgramInit
  \/ FetcherStep(RepoEntries, FetchHashes)
  \/ Tick
  \/ KeyToggle
  \/ KeyQuit
  \/ HandleErr

SpecFetch == Init /\ [][NextFetch]_vars

\* The developer statistics over repositories in which authors tie.
NextStats ==
  \/ ProgramInit
  \/ FetcherStep(StatEntries, StatHashes)
  \/ Tick
  \/ KeyStep

SpecStats == Init /\ [][NextStats]_vars

\* The diff view over repositories with commits that change nothing.
NextDiff ==
  \/ ProgramInit
  \/ FetcherStep(DiffEntries, DiffHashes)
  \/ Tick
  \/ KeyToggle
  \/ \E ok \in BOOLEAN : KeyEnter(ok)
  \/ DiffKeyStep(DiffScrolls)
  \/ \E msg \in WindowSizes : Resize(msg)

SpecDiff == Init /\ [][NextDiff]_vars

\* Fair scheduling: the goroutine of the fetcher runs, the tick timer fires,
\* auto-progress stays on and no key is pressed.
InitFair == InitWith(CommitLimits) /\ autoProgress = TRUE

NextFair ==
  \/ ProgramInit
  \/ FetcherStep(RepoEntries, FetchHashes)
  \/ Tick

SpecFair ==
  /\ InitFair
  /\ [][NextFair]_vars
  /\ WF_vars(ProgramInit)
  /\ WF_vars(FetcherStep(RepoEntries, FetchHashes))
  /\ WF_vars(Tick)

\* Replay with manual navigation while records are still arriving: a
\* repository of readable single-parent commits, no commit limit.
ReplayEntries == {e \in ReadableEntries : e.obj = PlainCommit}

ReplayFetcherStep ==
  \/ FetchOpen(TRUE)
  \/ FetchPipe(TRUE)
  \/ \E n \in 0..ReplayHashes : FetchStart(TRUE, n)
  \/ \E e \in ReplayEntries : FetchScan(e)
  \/ FetchEOF
  \/ FetchSend
  \/ FetchWait

NextReplay ==
  \/ ProgramInit
  \/ ReplayFetcherStep
  \/ Tick
  \/ KeyLeft
  \/ KeyRight
  \/ KeyToggle

SpecReplay == InitWith({-1}) /\ [][NextReplay]_vars

\* the same with the fetcher scheduled and the pending tick handled; no key
\* has to be pressed
SpecReplayFair ==
  /\ SpecReplay
  /\ WF_vars(ProgramInit)
  /\ WF_vars(ReplayFetcherStep)
  /\ WF_vars(Tick)

\* The year selection over a repository whose commits are of the years
\* 2020, 2021 and 2022 in turn, with manual navigation.
NextYears ==
  \/ ProgramInit
  \/ FetchOpen(TRUE)
  \/ FetchPipe(TRUE)
  \/ FetchStart(TRUE, YearHashes)
  \/ FetchScan(RepoLine(Len(scanned) + 1))
  \/ FetchEOF
  \/ FetchSend
  \/ FetchWait
  \/ Tick
  \/ KeyLeft
  \/ KeyRight
  \/ KeyYearUp
  \/ KeyYearDown
  \/ KeyToggle

SpecYears == InitWith({-1}) /\ [][NextYears]_vars

\* The graphs of the changes panel, over terminals too narrow, too low and
\* large enough for them.
GraphWindowSizes ==
  {[Width |-> 50, Height |-> 11], [Width |-> 52, Height |-> 11],
   [Width |-> 52, Height |-> 40], [Width |-> 52, Height |-> 45]}

\* The entries of a repository of readable commits with a parent: one adds
\* and deletes lines, the other only deletes.
GraphEntries == {e \in ReadableEntries : e.obj \in {PlainCommit, MergeCommit}}

InitGraph == InitWith({-1}) /\ autoProgress

NextGraph ==
  \/ ProgramInit
  \/ FetchOpen(TRUE)
  \/ FetchPipe(TRUE)
  \/ FetchStart(TRUE, GraphHashes)
  \/ \E e \in GraphEntries : FetchScan(e)
  \/ FetchEOF
  \/ FetchSend
  \/ FetchWait
  \/ Tick
  \/ \E msg \in GraphWindowSizes : Resize(msg)
  \/ DrawBrailleGraph
  \/ DrawChangesGraph

SpecGraph == InitGraph /\ [][NextGraph]_vars

\* the fields of the program, which drawing on a canvas leaves alone
programVars == << commitLimit, fetcherVars, chanVars, msgVars, uiVars >>

\* sizes <<width, height>> of the canvases explored: none, less than a
\* block, one block, two blocks side by side less a column, two blocks one
\* above the other less three rows
CanvasSizes == {<< 0, 0 >>, << 1, 3 >>, << 2, 4 >>, << 3, 4 >>, << 2, 5 >>}

\* the coordinates passed to Set: on every canvas explored, and around it
CanvasXs == -1..3
CanvasYs == -1..5

\* the dots set on the canvas c
DotsOn(c) == {i \in DOMAIN c.buffer : c.buffer[i]}

\* canvas.Set(x, y) followed by canvas.String()  (up to MaxDots dots are set)
CanvasDraw(x, y) ==
  /\ Cardinality(DotsOn(CanvasSet(canvas, x, y))) <= MaxDots
  /\ canvas' = CanvasSet(canvas, x, y)
  /\ brailleGraph' = Drawn(CanvasString(canvas'))
  /\ UNCHANGED << programVars, changesGraph >>

\* The canvas on its own: a new canvas, on which dots inside and outside of
\* it are set.
InitCanvas ==
  /\ InitialModel({-1})
  /\ autoProgress
  /\ \E size \in CanvasSizes : canvas = NewBrailleCanvas(size[1], size[2])
  /\ brailleGraph = Drawn(CanvasString(canvas))
  /\ changesGraph = NoGraph

NextCanvas == \E x \in CanvasXs : \E y \in CanvasYs : CanvasDraw(x, y)

SpecCanvas == InitCanvas /\ [][NextCanvas]_vars

(* ---------------------------------------------------------------------- *)
(* Properties                                                              *)
(* ---------------------------------------------------------------------- *)
\* the records handed over so far, oldest first: integrated, buffered, and
\* the one of a send in progress
Pushed == commits \o chan \o (IF pending = NoRecord THEN << >> ELSE << pending >>)

RECURSIVE SumOf(_, _, _)
SumOf(cs, i, f) == IF i = 0 THEN 0 ELSE cs[i][f] + SumOf(cs, i - 1, f)

\* C1: for every index i of the visible commit list, the cumulative
\* files/additions/deletions of record i are the sums of the per-commit
\* files/additions/deletions of records 0..i, whatever ticks, keys and
\* resizes have been handled.
C1_CumulativeIsPrefixSum ==
  \A i \in 1..Len(commits) :
    /\ commits[i].CumulativeFiles = SumOf(commits, i, "Files")
    /\ commits[i].CumulativeAdditions = SumOf(commits, i, "Additions")
    /\ commits[i].CumulativeDeletions = SumOf(commits, i, "Deletions")

\* two integrated commits that both delete lines, seen after the cursor was
\* moved back and the first commit's diff was opened
C1_Witness ==
  /\ Len(commits) = 2
  /\ commits[1].Deletions > 0
  /\ commits[2].Deletions > 0
  /\ commits[2].CumulativeDeletions > commits[2].Deletions
  /\ currentCommitIndex = 0
  /\ diffState = inDiffView

MaxOver(cs, f) == IF cs = << >> THEN 0 ELSE SetMax({cs[i][f] : i \in 1..Len(cs)})

\* C2: maxAdditions and maxDeletions are the largest per-commit additions
\* and deletions over the whole visible list (0 for the empty list) in every
\* state, wherever the cursor is; they never decrease, and they change only
\* in a step that integrates a record.
C2_ExtremesAreMaxima ==
  /\ [](/\ maxAdditions = MaxOver(commits, "Additions")
        /\ maxDeletions = MaxOver(commits, "Deletions"))
  /\ [][/\ maxAdditions' >= maxAdditions
        /\ maxDeletions' >= maxDeletions
        /\ (maxAdditions' # maxAdditions \/ maxDeletions' # maxDeletions)
              => Len(commits') = Len(commits) + 1]_vars

\* the larger commit came first and the cursor was moved back to it
C2_Witness ==
  /\ Len(commits) = 2
  /\ commits[2].Additions < maxAdditions
  /\ commits[2].Deletions < commits[1].Deletions
  /\ currentCommitIndex = 0

\* C3: the channel never holds more than 100 records; while it holds 100
\* the fetcher's next send cannot proceed, and it can as soon as one record
\* has been taken; a send adds exactly the pending record at the end, and no
\* record handed over is dropped, overwritten or reordered.
C3_BoundedQueueBlocksProducer ==
  /\ [](/\ Len(chan) <= ChanCap
        /\ Len(Pushed) = Len(scanned)
        /\ \A i \in 1..Len(Pushed) : Pushed[i].Hash = i
        /\ (fpc = "send" /\ Len(chan) = ChanCap) => ~ENABLED FetchSend
        /\ (fpc = "send" /\ Len(chan) < ChanCap /\ Alive) => ENABLED FetchSend)
  /\ [][/\ Len(chan') <= Len(chan) + 1
        /\ Len(chan') = Len(chan) + 1
             => chan' = Append(chan, pending) /\ commits' = commits]_vars

\* nothing consumed: 100 records are buffered and the send of record 101
\* waits
C3_Witness ==
  /\ Len(chan) = ChanCap
  /\ commits = << >>
  /\ fpc = "send"
  /\ pending.Hash = ChanCap + 1

\* C4: handling a tick never waits for the channel: a pending tick can be
\* handled in every state, whatever the fetcher is doing; it takes at most
\* one record from the channel and integrates at most one; on an empty,
\* open channel it changes nothing.
C4_TickNeverBlocks ==
  (Running /\ ticks > 0) =>
    /\ ENABLED Tick
    /\ ~ENABLED (/\ Tick
                 /\ \/ Len(commits') > Len(commits) + 1
                    \/ Len(chan') < Len(chan) - 1
                    \/ chan = << >> /\ ~chanClosed /\ vars' # vars)

\* a tick is pending with auto-progress on while the channel is empty and
\* open: the fetcher is still at work on the next commit
C4_Witness ==
  /\ Running
  /\ ticks > 0
  /\ autoProgress
  /\ Len(commits) > 0
  /\ chan = << >>
  /\ ~chanClosed
  /\ fpc = "scan"

\* C5: while the update loop keeps consuming, the fetcher eventually
\* terminates and closes the channel, when the listing is exhausted and when
\* the commit limit is reached, however many lines of the listing are left
\* unread.
C5_FetcherTerminates == <>(fpc = "done" /\ chanClosed)

\* what a fatal failure of the fetcher leaves behind
FatalOutcome ==
  /\ errSent' = errSent + 1
  /\ errPending' = errPending + 1
  /\ fpc' = "done"
  /\ chanClosed'
  /\ chan' = chan
  /\ UNCHANGED << scanned, pending, commitCount, uiVars >>

ReadableLines ==
  SelectSeq([i \in 1..Len(scanned) |-> i], LAMBDA i : scanned[i] # "unreadable")

PushedHashes == [i \in 1..Len(Pushed) |-> Pushed[i].Hash]

\* the entries whose commit object, first parent, tree or patch cannot be read
FailingEntries == {e \in RepoEntries : e.fail # NoFail}

\* C7: a commit with a failing lookup is skipped: no record is pushed for
\* it, nothing is sent to the program, and the fetcher goes on with the next
\* line; the records handed over are exactly those of the readable lines read
\* so far, in order, and without a limit the listing is read to its end.
C7_FailedLookupSkipsCommit ==
  /\ PushedHashes = ReadableLines
  /\ \A i \in 1..Len(Pushed) : Pushed[i].Kind = scanned[Pushed[i].Hash]
  /\ scanned # << >> => errSent = 0
  /\ \A e \in FailingEntries :
       ~ENABLED (/\ FetchScan(e)
                 /\ ~(/\ fpc' = "scan"
                      /\ linesLeft' = linesLeft - 1
                      /\ UNCHANGED << pending, commitCount, chanVars, msgVars,
                                      uiVars >>))
  /\ (fpc \in {"wait", "done"} /\ errSent = 0 /\ commitLimit <= 0)
       => linesLeft = 0

\* the second of three lines could not be read; the first and the third
\* were pushed and integrated
C7_Witness ==
  /\ Len(scanned) = 3
  /\ scanned[2] = "unreadable"
  /\ Len(commits) = 2
  /\ commits[1].Hash = 1
  /\ commits[2].Hash = 3

ObjectOfKind(k) == CHOOSE o \in CommitObjects : o.Kind = k

\* C8: a record of a commit without parents has files, additions, deletions
\* and churn 0; every record has churn = additions + deletions; a record of a
\* commit with parents carries the statistics of the patch against its first
\* parent.
C8_RootZeroFirstParentOnly ==
  \A i \in 1..Len(Pushed) :
    LET c == Pushed[i]
        obj == ObjectOfKind(c.Kind)
    IN /\ c.Churn = c.Additions + c.Deletions
       /\ obj.NumParents = 0 =>
            c.Files = 0 /\ c.Additions = 0 /\ c.Deletions = 0 /\ c.Churn = 0
       /\ obj.NumParents > 0 =>
            /\ c.Files = Len(obj.PatchStats[1])
            /\ c.Additions = SumAdditions(obj.PatchStats[1])
            /\ c.Deletions = SumDeletions(obj.PatchStats[1])
       /\ c.Kind = "A" => c.Files = 2 /\ c.Additions = 10 /\ c.Deletions = 2
       /\ c.Kind = "B" => c.Files = 1 /\ c.Additions = 0 /\ c.Deletions = 5

\* a root commit and a merge commit have both been integrated
C8_Witness ==
  /\ Len(commits) = 2
  /\ commits[1].Kind = "R"
  /\ commits[2].Kind = "B"

\* C9: outside the diff view the toggle key flips autoProgress and changes
\* nothing else: not the cursor, the commit list, the mode, the extremes, the
\* year selection or the channel.
C9_ToggleFlipsOnlyFlag ==
  (Running /\ diffState = notInDiffView) =>
    /\ ENABLED KeyToggle
    /\ ~ENABLED (/\ KeyToggle
                 /\ ~(/\ autoProgress' = ~autoProgress
                      /\ UNCHANGED << cfgVars, fetcherVars, chanVars, msgVars,
                                      ui, currentCommitIndex, layoutVars,
                                      listVars, diffVars, yearVars >>))

\* auto-progress is on while the cursor is not on the last commit: the flag
\* was toggled on after a manual move
C9_Witness ==
  /\ Running
  /\ diffState = notInDiffView
  /\ autoProgress
  /\ Len(commits) = 2
  /\ currentCommitIndex = 0

\* the step moves the cursor or changes the commit list
CursorOrListChanges ==
  currentCommitIndex' # currentCommitIndex \/ commits' # commits

\* C10: "previous" at cursor 0 and "next" at the last index leave the cursor
\* and the commit list unchanged, outside and inside the diff view.
C10_MoveAtBoundIsNoOp ==
  Running =>
    /\ (diffState = notInDiffView /\ currentCommitIndex = 0) =>
         ENABLED KeyLeft /\ ~ENABLED (KeyLeft /\ CursorOrListChanges)
    /\ (diffState = notInDiffView /\ currentCommitIndex >= Len(commits) - 1) =>
         ENABLED KeyRight /\ ~ENABLED (KeyRight /\ CursorOrListChanges)
    /\ (diffState = inDiffView /\ currentCommitIndex = 0) =>
         \A ok \in BOOLEAN :
           /\ ENABLED KeyDiffLeft(ok)
           /\ ~ENABLED (KeyDiffLeft(ok) /\ CursorOrListChanges)
    /\ (diffState = inDiffView /\ currentCommitIndex >= Len(commits) - 1) =>
         \A ok \in BOOLEAN :
           /\ ENABLED KeyDiffRight(ok)
           /\ ~ENABLED (KeyDiffRight(ok) /\ CursorOrListChanges)

\* the diff view shows the first of two commits after a move back to it
C10_Witness ==
  /\ Running
  /\ diffState = inDiffView
  /\ Len(commits) = 2
  /\ currentCommitIndex = 0
  /\ commits[1].DiffContent # ""
  /\ commits[2].DiffContent # ""

\* the cursor after a manual move by d: the target when it is an index of
\* the list, the cursor itself otherwise
MoveTarget(d) ==
  IF currentCommitIndex + d \in 0..(Len(commits) - 1)
    THEN currentCommitIndex + d
    ELSE currentCommitIndex

\* C11: outside the diff view the "next" and "previous" keys are always
\* handled; they move the cursor by exactly one when the target is an index
\* of the list and leave it where it is otherwise (at a bound, on the empty
\* list); auto-progress is off afterwards in every case, and the commit list
\* is untouched.
C11_ManualMoveByOneAutoOff ==
  /\ []((Running /\ diffState = notInDiffView) =>
          ENABLED KeyRight /\ ENABLED KeyLeft)
  /\ [][/\ KeyRight => /\ currentCommitIndex' = MoveTarget(1)
                       /\ autoProgress' = FALSE
                       /\ commits' = commits
        /\ KeyLeft => /\ currentCommitIndex' = MoveTarget(-1)
                      /\ autoProgress' = FALSE
                      /\ commits' = commits]_vars

\* the whole listing was integrated with auto-progress on; then the cursor
\* was moved back by one, which turned auto-progress off
C11_Witness ==
  /\ Running
  /\ diffState = notInDiffView
  /\ loadingComplete
  /\ Len(commits) = 2
  /\ currentCommitIndex = 0
  /\ ~autoProgress

\* C12: the diff view is entered only by "enter" while auto-progress is
\* off; "enter" while auto-progress is on leaves the mode unchanged; in
\* every state in the diff view auto-progress is off, and no step taken in
\* the diff view integrates a record or takes one from the channel.
C12_DiffViewOnlyFromPaused ==
  /\ [](diffState = inDiffView => ~autoProgress)
  /\ [][/\ (diffState = notInDiffView /\ diffState' = inDiffView) =>
             /\ ~autoProgress
             /\ \E ok \in BOOLEAN : KeyEnter(ok)
        /\ (autoProgress /\ \E ok \in BOOLEAN : KeyEnter(ok)) =>
             diffState' = notInDiffView
        /\ diffState = inDiffView =>
             /\ Len(commits') = Len(commits)
             /\ Len(chan') >= Len(chan)]_vars

\* the diff view is open while a record waits in the channel and a tick is
\* pending
C12_Witness ==
  /\ Running
  /\ diffState = inDiffView
  /\ ticks > 0
  /\ Len(commits) = 1
  /\ Len(chan) = 1

\* the record without its cached diff text
SansDiff(rec) == [rec EXCEPT !.DiffContent = ""]

\* the same commits in the same order; only cached diff texts may differ
SameList(cs, ds) ==
  /\ Len(cs) = Len(ds)
  /\ \A i \in 1..Len(cs) : SansDiff(cs[i]) = SansDiff(ds[i])

\* C13: "enter" opening the diff view keeps the cursor, the auto-progress
\* flag, the commits of the list (only the diff text of the selected commit
\* is filled in), the extremes and the year selection; leaving the diff view
\* with the cursor where it was on entry keeps all of them as well: the two
\* steps in a row restore the state before entry.
C13_EnterLeaveRoundTrip ==
  [][/\ ((\E ok \in BOOLEAN : KeyEnter(ok)) /\ diffState' = inDiffView
            /\ ui' = "running") =>
          /\ entryIndex' = currentCommitIndex
          /\ currentCommitIndex' = currentCommitIndex
          /\ autoProgress' = autoProgress
          /\ SameList(commits, commits')
          /\ UNCHANGED << maxAdditions, maxDeletions, yearVars >>
     /\ (KeyDiffLeave /\ currentCommitIndex = entryIndex) =>
          /\ diffState' = notInDiffView
          /\ currentCommitIndex' = entryIndex
          /\ autoProgress' = autoProgress
          /\ commits' = commits
          /\ UNCHANGED << maxAdditions, maxDeletions, yearVars >>]_vars

\* back outside the diff view on the first of two commits: only its diff was
\* fetched, so the diff view was opened on it and left without a move
C13_Witness ==
  /\ Running
  /\ diffState = notInDiffView
  /\ ~autoProgress
  /\ Len(commits) = 2
  /\ currentCommitIndex = 0
  /\ commits[1].DiffContent # ""
  /\ commits[2].DiffContent = ""

C15_DiffComputedOnce ==
  \A h \in DOMAIN diffComputations : diffComputations[h] <= 1

\* {all-time} and the distinct years of the commits up to the cursor, as the
\* year list orders them
YearsUpToCursor ==
  << 0 >> \o SortDesc({commits[i + 1].Year : i \in 0..currentCommitIndex})

\* the step leaves the pointer at i with the year at i selected
YearSelected(i) ==
  /\ ui' = "running"
  /\ currentStatYearIndex' = i
  /\ displayedStatsYear' = availableStatYears[i + 1]

\* C16: outside the diff view, once commits are shown, the year list is
\* {all-time} with the distinct years up to the cursor, the pointer is an
\* index of it and the selected year is the entry at the pointer; the
\* year-forward key moves the pointer to the next entry and from the last
\* to the first, the year-backward key to the previous entry and from the
\* first to the last.
C16_YearCycleTotalCyclic ==
  (Running /\ diffState = notInDiffView /\ commits # << >>) =>
    LET n == Len(availableStatYears)
        i == currentStatYearIndex
    IN /\ availableStatYears = YearsUpToCursor
       /\ i \in 0..(n - 1)
       /\ displayedStatsYear = availableStatYears[i + 1]
       /\ ENABLED KeyYearDown
       /\ ~ENABLED (KeyYearDown
                      /\ ~YearSelected(IF i = n - 1 THEN 0 ELSE i + 1))
       /\ ENABLED KeyYearUp
       /\ ~ENABLED (KeyYearUp
                      /\ ~YearSelected(IF i = 0 THEN n - 1 ELSE i - 1))

RECURSIVE SumSeq(_)
SumSeq(q) == IF q = << >> THEN 0 ELSE Head(q) + SumSeq(Tail(q))

\* the commits the developer statistics of the current state analyze
Analyzed == CommitsToAnalyze(commits, currentCommitIndex, displayedStatsYear)

\* C17: whenever the dashboard is drawn, the 12 month rows, the 7 weekday
\* rows and the 24 hour rows each add up to the number of commits analyzed:
\* cursor + 1 for all-time, otherwise the number of commits up to the cursor
\* authored in the selected year.
C17_BucketsSumToAnalyzed ==
  (Running /\ diffState = notInDiffView /\ commits # << >>) =>
    /\ Len(Months) = 12 /\ Len(Weekdays) = 7 /\ Len(Hours) = 24
    /\ SumSeq(Buckets(Analyzed, "Month", Months)) = Len(Analyzed)
    /\ SumSeq(Buckets(Analyzed, "Weekday", Weekdays)) = Len(Analyzed)
    /\ SumSeq(Buckets(Analyzed, "Hour", Hours)) = Len(Analyzed)
    /\ Len(Analyzed) =
         IF displayedStatsYear = 0
           THEN currentCommitIndex + 1
           ELSE Cardinality({i \in 0..currentCommitIndex :
                               commits[i + 1].Year = displayedStatsYear})

\* the year of the first commit (a Sunday in December, 23h) is selected with
\* the cursor on the second commit, which is from another year
C17_Witness ==
  /\ Running
  /\ diffState = notInDiffView
  /\ Len(commits) = 2
  /\ currentCommitIndex = 1
  /\ commits[1].Weekday = 0
  /\ displayedStatsYear = commits[1].Year
  /\ displayedStatsYear # commits[2].Year

\* C18: in the diff view the scroll offset stays within 0..line_count of
\* the diff shown, whatever scroll keys have been pressed; page-down adds
\* the viewport height and page-up subtracts it, stopping at 0.
C18_ScrollWithinDiff ==
  (Running /\ diffState = inDiffView) =>
    /\ diffScroll \in 0..LineCount(currentDiff)
    /\ ~ENABLED (KeyDiffPgDown(DiffScrolls)
                   /\ diffScroll' # diffScroll + height)
    /\ ~ENABLED (KeyDiffPgUp
                   /\ diffScroll' # (IF diffScroll - height < 0 THEN 0
                                     ELSE diffScroll - height))

\* the indices of the commits the developer statistics analyze
AnalyzedIdx == AnalyzedAt(commits, currentCommitIndex, displayedStatsYear)

\* index of the first analyzed commit by author a
FirstSeen(a) == CHOOSE i \in AnalyzedIdx :
  commits[i].Author = a /\ \A j \in AnalyzedIdx : j < i => commits[j].Author # a

\* a comes before b: more churn, or the same churn and seen first
RanksBefore(a, b) ==
  \/ ChurnOf(commits, AnalyzedIdx, a) > ChurnOf(commits, AnalyzedIdx, b)
  \/ /\ ChurnOf(commits, AnalyzedIdx, a) = ChurnOf(commits, AnalyzedIdx, b)
     /\ FirstSeen(a) < FirstSeen(b)

\* the analyzed authors with their churn, by churn, ties in first-seen order
StableOrder ==
  LET q == CHOOSE o \in Orders(AuthorsOf(commits, AnalyzedIdx)) :
             \A i, j \in DOMAIN o : i < j => RanksBefore(o[i], o[j])
  IN [i \in DOMAIN q |->
        [name |-> q[i], churn |-> ChurnOf(commits, AnalyzedIdx, q[i])]]

\* C19: the contributor rows drawn are the at most 5 authors of the
\* analyzed commits with the largest total churn, by churn descending and,
\* for equal churn, in first-seen order; so the same commits and year filter
\* give the same rows on every redraw.
C19_TopContributorsStable ==
  (Running /\ diffState = notInDiffView /\ commits # << >>) =>
    /\ Len(topContributors) <= TopCount
    /\ topContributors = TopRows(StableOrder)

\* C20: Init schedules the first tick and every handled tick schedules
\* exactly one next tick, whatever it found in the channel, whether
\* auto-progress is on and whether the diff view is open; nothing else
\* schedules a tick: exactly one tick is pending from Init on, and it can be
\* handled in every running state.
C20_OneTickPending ==
  /\ [](/\ ui = "init" => ticks = 0
        /\ ui # "init" => ticks = 1
        /\ Running => ENABLED Tick)
  /\ [][/\ Tick => ticks' = ticks
        /\ ticks' # ticks => ProgramInit]_vars

\* the diff view is open after the end of the stream was seen: ticks have
\* integrated records, found the channel empty and found it closed, and are
\* now handled in the diff view with auto-progress off
C20_Witness ==
  /\ Running
  /\ ticks = 1
  /\ loadingComplete
  /\ Len(commits) = 2
  /\ diffState = inDiffView
  /\ ~autoProgress
  /\ diffScroll = 1

\* C21: a tick handled with auto-progress on while the channel is closed and
\* empty sets loadingComplete and keeps the mode, the cursor, the
\* auto-progress flag and the commit list; loadingComplete is true only
\* when the channel is closed and every record the fetcher pushed has been
\* integrated, and once true it stays true.
C21_EndOfStreamKeepsMode ==
  /\ [](loadingComplete =>
          /\ chanClosed
          /\ chan = << >>
          /\ pending = NoRecord
          /\ commitCount = Len(commits))
  /\ [][/\ (Tick /\ autoProgress /\ chanClosed /\ chan = << >>) =>
             /\ loadingComplete'
             /\ UNCHANGED << diffState, currentCommitIndex, autoProgress,
                             commits >>
        /\ loadingComplete => loadingComplete']_vars

\* the end of the stream was seen after one commit, and then a manual move
\* turned auto-progress off; the year of the commit is selected
C21_Witness ==
  /\ Running
  /\ loadingComplete
  /\ chanClosed
  /\ Len(commits) = 1
  /\ ~autoProgress
  /\ diffState = notInDiffView
  /\ displayedStatsYear = commits[1].Year

\* C22 as stated: "q" or "ctrl+c" is handled in every running state, the
\* diff view included, and ends the update loop.
C22_QuitEndsLoopEverywhere ==
  /\ [](Running => ENABLED KeyQ)
  /\ [][KeyQ => ui' = "quit"]_vars

\* C22, amended: "q" or "ctrl+c" is handled in every running state, whatever
\* the fetcher is doing.  Outside the diff view it ends the update loop at
\* once and touches neither the fetcher nor the channel; in the diff view it
\* closes the diff view and the loop goes on, so that the same key pressed
\* again ends it.  Once the loop has ended nothing runs any more: the
\* fetcher is not waited for.
C22_QuitEndsLoopOutsideDiffView ==
  /\ [](Running => ENABLED KeyQ)
  /\ [][/\ (KeyQ /\ diffState = notInDiffView) =>
             /\ ui' = "quit"
             /\ UNCHANGED << fetcherVars, chanVars, msgVars >>
        /\ (KeyQ /\ diffState = inDiffView) =>
             /\ ui' = "running"
             /\ diffState' = notInDiffView
        /\ ui = "quit" => UNCHANGED vars]_vars

\* the loop has ended while the fetcher waits to send a record, after the
\* diff view had been opened on the first commit and closed
C22_Witness ==
  /\ ui = "quit"
  /\ fpc = "send"
  /\ Len(commits) = 1
  /\ commits[1].DiffContent # ""

\* the fetcher stands before m.repo = r: the next step of the goroutine
\* writes the Model field repo
RepoWritePending == Alive /\ fpc = "open"

\* Update answers a next key by calling getDiff(m.repo, ...), after it has
\* read the selected commit from the list: it reads the Model field repo
RepoReadPossible ==
  /\ Running
  /\ commits # << >>
  /\ diffState = inDiffView \/ EnterOpens(autoProgress)

Uncached(idx) ==
  idx \in 0..(Len(commits) - 1) /\ commits[idx + 1].DiffContent = ""

\* what a failed call of getDiff leaves behind, with the cursor at idx
DiffFailureShown(idx) ==
  /\ currentDiff' = ErrorText
  /\ commits' = commits
  /\ ui' = "running"
  /\ diffState' = inDiffView
  /\ currentCommitIndex' = idx
  /\ diffScroll' = 0

\* C24: when getDiff fails, on "enter" or on "left"/"right" in the diff
\* view, the diff shown becomes the error text, no record of the list is
\* changed (nothing is cached), the update loop goes on, the diff view is
\* open and the cursor is where the key put it (unmoved on "enter", one
\* step away on "left"/"right"); while the error text is shown "left",
\* "right" and the keys that leave the diff view are handled.
C24_DiffFailureIsInline ==
  /\ [][/\ (KeyEnter(FALSE) /\ EnterOpens(autoProgress)
              /\ Uncached(currentCommitIndex)) =>
             DiffFailureShown(currentCommitIndex)
        /\ (KeyDiffLeft(FALSE) /\ currentCommitIndex > 0
              /\ Uncached(currentCommitIndex - 1)) =>
             DiffFailureShown(currentCommitIndex - 1)
        /\ (KeyDiffRight(FALSE) /\ Uncached(currentCommitIndex + 1)) =>
             DiffFailureShown(currentCommitIndex + 1)]_vars
  /\ []((Running /\ diffState = inDiffView /\ currentDiff = ErrorText) =>
          /\ ENABLED KeyDiffLeave
          /\ \A ok \in BOOLEAN :
               ENABLED KeyDiffLeft(ok) /\ ENABLED KeyDiffRight(ok))

\* the diff view was opened on the second commit, whose diff was fetched;
\* "left" then failed to fetch the diff of the first
C24_Witness ==
  /\ Running
  /\ diffState = inDiffView
  /\ Len(commits) = 2
  /\ currentCommitIndex = 0
  /\ entryIndex = 1
  /\ commits[2].DiffContent # ""
  /\ commits[1].DiffContent = ""
  /\ currentDiff = ErrorText

\* C25: a WindowSizeMsg is handled in every running state; it sets width
\* and height to the terminal's less 10, graphColumns to width/2 - 10 and
\* networkGraphHeight to height/3 - 10, and changes nothing else: not the
\* cursor, the auto-progress flag, the mode, the diff shown or its scroll
\* offset, the year selection, the commit list, the extremes, the channel
\* or the fetcher; it returns no command (no tick, no quit).
C25_ResizeChangesOnlyLayout ==
  /\ [](Running => \A msg \in WindowSizes : ENABLED Resize(msg))
  /\ [][\A msg \in WindowSizes : Resize(msg) =>
          /\ width' = msg.Width - 10
          /\ height' = msg.Height - 10
          /\ 2 * (graphColumns' + 10) \in {width' - 1, width'}
          /\ 3 * (networkGraphHeight' + 10) \in (height' - 2)..height'
          /\ UNCHANGED << cfgVars, fetcherVars, chanVars, msgVars, ui,
                          currentCommitIndex, autoProgress, listVars,
                          diffVars, yearVars >>]_vars

\* the terminal (50 x 11) was resized; the diff view is open, scrolled down
\* by one line, with a year other than all-time selected
C25_Witness ==
  /\ Running
  /\ width = 40
  /\ height = 1
  /\ graphColumns = 10
  /\ networkGraphHeight = -10
  /\ diffState = inDiffView
  /\ diffScroll = 1
  /\ currentStatYearIndex = 1
  /\ displayedStatsYear # 0

\* the record as the fetcher sent it
AsSent(rec) ==
  [rec EXCEPT !.DiffLoaded = FALSE, !.DiffContent = "",
              !.CumulativeFiles = 0, !.CumulativeAdditions = 0,
              !.CumulativeDeletions = 0]

\* the records the fetcher has sent or is sending, oldest first
SentStream == [i \in 1..Len(Pushed) |-> AsSent(Pushed[i])]

\* C26: for the records the fetcher sends, runNonInteractive returns them in
\* the order sent, and each with the cumulative files, additions and
\* deletions that the ticks of the interactive program give the same record
\* when they integrate it; so the two lists agree once every record is
\* integrated.
C26_DrainMatchesTicks ==
  LET allCommits == RunNonInteractive(SentStream)
  IN /\ Len(allCommits) = Len(SentStream)
     /\ \A i \in 1..Len(allCommits) :
          /\ allCommits[i].Hash = SentStream[i].Hash
          /\ \A j \in 1..(i - 1) : allCommits[j].Hash < allCommits[i].Hash
     /\ \A i \in 1..Len(commits) :
          /\ allCommits[i].CumulativeFiles = commits[i].CumulativeFiles
          /\ allCommits[i].CumulativeAdditions = commits[i].CumulativeAdditions
          /\ allCommits[i].CumulativeDeletions = commits[i].CumulativeDeletions
     /\ loadingComplete => Len(commits) = Len(allCommits)

\* three commits, the second a merge, are integrated and the end of the
\* stream has been seen
C26_Witness ==
  /\ loadingComplete
  /\ Len(commits) = 3
  /\ commits[1].Kind = "A"
  /\ commits[2].Kind = "B"
  /\ commits[3].CumulativeDeletions > commits[3].Deletions + commits[2].Deletions

\* the step leaves the diff view open on the commit at index idx (0-based)
\* with its diff fetched: the text of the diff, now cached on the record,
\* or the error text when the fetch failed
DiffRefetchedAt(idx) ==
  /\ ui' = "running"
  /\ diffState' = inDiffView
  /\ currentCommitIndex' = idx
  /\ diffScroll' = 0
  /\ SameList(commits, commits')
  /\ \/ /\ currentDiff' = DiffTextOf(commits[idx + 1].Kind)
        /\ commits'[idx + 1].DiffContent = currentDiff'
     \/ /\ currentDiff' = ErrorText
        /\ commits[idx + 1].DiffContent = ""
        /\ commits' = commits

\* C27: in the diff view "left" and "right" are always handled; when the
\* neighbour exists the cursor moves to it, the diff shown becomes the diff
\* of that commit (or the error text of its fetch), the scroll offset
\* becomes 0 and the diff view stays open; at a bound the cursor stays.
C27_DiffNavigationRefetches ==
  /\ []((Running /\ diffState = inDiffView) =>
          \A ok \in BOOLEAN :
            ENABLED KeyDiffLeft(ok) /\ ENABLED KeyDiffRight(ok))
  /\ [][/\ (\E ok \in BOOLEAN : KeyDiffRight(ok)) =>
             IF currentCommitIndex < Len(commits) - 1
               THEN DiffRefetchedAt(currentCommitIndex + 1)
               ELSE UNCHANGED << currentCommitIndex, diffState >>
        /\ (\E ok \in BOOLEAN : KeyDiffLeft(ok)) =>
             IF currentCommitIndex > 0
               THEN DiffRefetchedAt(currentCommitIndex - 1)
               ELSE UNCHANGED << currentCommitIndex, diffState >>]_vars

\* the diff view was opened on the first commit and "right" moved to the
\* second: both diffs are cached and the second is shown from its top
C27_Witness ==
  /\ Running
  /\ diffState = inDiffView
  /\ entryIndex = 0
  /\ currentCommitIndex = 1
  /\ diffScroll = 0
  /\ commits[1].DiffContent # ""
  /\ currentDiff = commits[2].DiffContent
  /\ currentDiff = DiffTextOf(commits[2].Kind)

\* the dots of a block, as offsets <<column, row>> from its top left dot
BlockDots == {0, 1} \X {0, 1, 2, 3}

\* the bit of each dot of a block
DotBit(d) ==
  CASE d = << 0, 0 >> -> 1
    [] d = << 0, 1 >> -> 2
    [] d = << 0, 2 >> -> 4
    [] d = << 1, 0 >> -> 8
    [] d = << 1, 1 >> -> 16
    [] d = << 1, 2 >> -> 32
    [] d = << 0, 3 >> -> 64
    [] d = << 1, 3 >> -> 128

\* the dot at (x, y) lies on the canvas and is set
DotIsSet(x, y) ==
  /\ x \in 0..(canvas.Width - 1)
  /\ y \in 0..(canvas.Height - 1)
  /\ canvas.buffer[y * canvas.Width + x]

\* the dots set in the block whose top left dot is (x, y)
DotsSetIn(x, y) == {d \in BlockDots : DotIsSet(x + d[1], y + d[2])}

\* the sum of the bits of the dots ds
BitsOf(ds) == BagCardinality([d \in ds |-> DotBit(d)])

\* C28: the string of a canvas has one line per 4 rows of dots and on each
\* line one glyph per 2 columns; the glyph of a block is 0x2800 plus the sum
\* of the bits of its set dots (left column rows 0-2: 1, 2, 4; right column
\* rows 0-2: 8, 16, 32; row 3: 64, 128), from which the dots are read back,
\* so that different patterns give different glyphs; dots beyond the canvas
\* count as unset, and Set outside of the canvas changes nothing.
C28_BlockPacksIntoGlyph ==
  /\ Len(brailleGraph.rows) = (canvas.Height + 3) \div 4
  /\ \A row \in DOMAIN brailleGraph.rows :
       /\ Len(brailleGraph.rows[row]) = (canvas.Width + 1) \div 2
       /\ \A col \in DOMAIN brailleGraph.rows[row] :
            LET glyph == brailleGraph.rows[row][col]
                dots == DotsSetIn(2 * (col - 1), 4 * (row - 1))
            IN /\ glyph = BrailleBase + BitsOf(dots)
               /\ {d \in BlockDots : (glyph \div DotBit(d)) % 2 = 1} = dots
  /\ \A d, e \in BlockDots :
       /\ DotBit(d) \in {1, 2, 4, 8, 16, 32, 64, 128}
       /\ d # e => DotBit(d) # DotBit(e)
  /\ \A x \in CanvasXs : \A y \in CanvasYs :
       IF x \in 0..(canvas.Width - 1) /\ y \in 0..(canvas.Height - 1)
         THEN /\ CanvasGet(canvas, x, y) = canvas.buffer[y * canvas.Width + x]
              /\ ~ENABLED (CanvasDraw(x, y) /\ ~DotIsSet(x, y)')
         ELSE /\ ~CanvasGet(canvas, x, y)
              /\ ~ENABLED (CanvasDraw(x, y) /\ canvas' # canvas)

\* a canvas of two blocks side by side less the last column: in the first
\* block the left column and the top and bottom dots of the right column
\* are set, in the second the top and bottom dots of the left column
C28_Witness ==
  /\ canvas.Width = 3
  /\ canvas.Height = 4
  /\ brailleGraph.rows =
       << << BrailleBase + 1 + 2 + 4 + 64 + 8 + 128, BrailleBase + 1 + 64 >> >>

(* ---------------------------------------------------------------------- *)
(* C29                                                                     *)
(* ---------------------------------------------------------------------- *)
\* the height View passes to the graphs, and the half heights they scale to
GraphHeight == GraphHeightOf(height)
BrailleZeroLine == (ClampGraphHeight(GraphHeight) * 4) \div 2
LOCZeroLine == ClampGraphHeight(GraphHeight) \div 2

\* the bars of the commits drawn stay below half of the canvas
BarsWithinHalf(zeroLine) ==
  \A i \in DrawnCommits :
    /\ Scaled(commits[i + 1].Additions, maxAdditions, zeroLine) <= zeroLine - 1
    /\ Scaled(commits[i + 1].Deletions, maxDeletions, zeroLine) <= zeroLine - 1

\* the divisor of the scaling is never zero, and no bar exceeds the half
ZeroMaximumGuarded ==
  /\ LogMax(maxAdditions) > 0
  /\ LogMax(maxDeletions) > 0
  /\ maxAdditions = 0 => LogMax(maxAdditions) = 1000
  /\ maxDeletions = 0 => LogMax(maxDeletions) = 1000
  /\ commits # << >> =>
       BarsWithinHalf(BrailleZeroLine) /\ BarsWithinHalf(LOCZeroLine)

\* a step that draws the braille graph, and one that draws the changes graph
BrailleStep == brailleGraph' # brailleGraph \/ canvas' # canvas
ChangesStep == changesGraph' # changesGraph

\* the canvas is too small: too few columns, too few rows
TooFewColumns == graphColumns <= MinGraphColumns
TooFewBrailleRows == GraphHeight < MinGraphHeight
TooFewChangesRows == GraphHeight < MinChangesHeight

\* no dot of the canvas c is set in row y
RowIsBlank(c, y) == \A x \in 0..(c.Width - 1) : ~CanvasGet(c, x, y)

\* C29 as stated: both renderings guard a zero maximum by substituting 1, and
\* both return a placeholder whenever there are too few columns or too few
\* rows.
C29_PlaceholderWheneverTooSmall ==
  /\ []ZeroMaximumGuarded
  /\ [][/\ BrailleStep /\ (TooFewColumns \/ TooFewBrailleRows)
             => brailleGraph'.text # ""
        /\ ChangesStep /\ (TooFewColumns \/ TooFewChangesRows)
             => changesGraph'.text # ""]_vars

\* C29: both renderings scale with 1 in place of a zero maximum, so that the
\* divisor is never zero and no bar exceeds half of the canvas; both return
\* the placeholder "Insufficient data" when the graph has 10 columns or
\* fewer; with too few rows only the combined changes graph returns a
\* placeholder ("Not enough space", below 10 rows), while the braille graph
\* is drawn on 5 rows of glyphs when fewer than 5 are given.
C29_PlaceholderAsEachRenderingDecides ==
  /\ []ZeroMaximumGuarded
  /\ [][/\ BrailleStep =>
             IF InsufficientData
               THEN brailleGraph' = Placeholder("Insufficient data")
               ELSE /\ brailleGraph'.text = ""
                    /\ Len(brailleGraph'.rows) = ClampGraphHeight(GraphHeight)
                    /\ Len(brailleGraph'.rows) >= MinGraphHeight
                    /\ canvas'.Width = 2 * graphColumns
                    /\ canvas'.Height = 4 * ClampGraphHeight(GraphHeight)
                    /\ RowIsBlank(canvas', 0)
                    /\ RowIsBlank(canvas', 1)
                    /\ RowIsBlank(canvas', canvas'.Height - 1)
        /\ ChangesStep =>
             IF TooFewChangesRows
               THEN changesGraph' = Placeholder("Not enough space")
             ELSE IF InsufficientData
               THEN changesGraph' = Placeholder("Insufficient data")
             ELSE /\ changesGraph'.text = ""
                  /\ Len(changesGraph'.rows) = GraphHeight
                  /\ \A k \in 1..graphColumns :
                       changesGraph'.rows[1][k] = " "]_vars

\* the window leaves the graphs 11 columns and no rows, no commit listed
\* adds a line, the braille graph is drawn on 5 rows with a bar on it,
\* and the changes graph is the placeholder for too few rows
C29_Witness ==
  /\ graphColumns = MinGraphColumns + 1
  /\ GraphHeight < MinGraphHeight
  /\ commits # << >>
  /\ maxAdditions = 0
  /\ maxDeletions > 0
  /\ Len(brailleGraph.rows) = MinGraphHeight
  /\ canvas.Height = 4 * MinGraphHeight
  /\ \E y \in 0..(canvas.Height - 1) : ~RowIsBlank(canvas, y)
  /\ changesGraph = Placeholder("Not enough space")

(* ---------------------------------------------------------------------- *)
(* C30                                                                     *)
(* ---------------------------------------------------------------------- *)
\* the records sent so far are those counted, a positive limit bounds them,
\* the loop is left with the send that reaches it, unreadable lines are not
\* counted, and without a limit the loop ends only at the end of the listing
\* with every readable commit sent
LimitBoundsPushes ==
  /\ Len(commits) + Len(chan) = commitCount
  /\ commitLimit > 0 => commitCount <= commitLimit
  /\ LimitReached(commitCount) => fpc \in {"wait", "done"} /\ pending = NoRecord
  /\ Len(ReadableLines) = commitCount + (IF pending = NoRecord THEN 0 ELSE 1)
  /\ (commitLimit <= 0 /\ fpc \in {"wait", "done"} /\ errSent = 0) =>
       /\ linesLeft = 0
       /\ commitCount = Len(ReadableLines)
       /\ PushedHashes = ReadableLines

\* C30: with a positive limit L the fetcher sends at most L records and
\* terminates once L records have been sent; skipped commits do not count;
\* with a limit <= 0 every readable commit is sent.
C30_LimitEndsFetcher ==
  /\ []LimitBoundsPushes
  /\ LimitReached(commitCount) ~> fpc = "done"

(* ---------------------------------------------------------------------- *)
(* C31                                                                     *)
(* ---------------------------------------------------------------------- *)
\* the step appends the integrated head of the channel to the list and
\* leaves the cursor on it
TickIntegrates ==
  /\ commits' = Append(commits, Integrate(commits, Head(chan)))
  /\ chan' = Tail(chan)
  /\ currentCommitIndex' = Len(commits') - 1

\* C31: a tick with auto-progress on and a record in the channel appends the
\* record at the end of the list and leaves the cursor on the new last
\* index, wherever the cursor was; the list grows by no other step.
C31_IntegrationMovesCursorToLast ==
  /\ []((Running /\ autoProgress /\ chan # << >>) =>
          ENABLED Tick /\ ~ENABLED (Tick /\ ~TickIntegrates))
  /\ [][Len(commits') # Len(commits) =>
          autoProgress /\ chan # << >> /\ TickIntegrates]_vars

\* two commits are listed, the cursor was moved back to the first,
\* auto-progress was turned on again and the third record waits in the
\* channel for the next tick
C31_Witness ==
  /\ Running
  /\ autoProgress
  /\ Len(commits) = 2
  /\ currentCommitIndex = 0
  /\ Len(chan) = 1
  /\ ticks > 0

(* ---------------------------------------------------------------------- *)
(* C32                                                                     *)
(* ---------------------------------------------------------------------- *)
\* the list, the cursor, the maxima, loadingComplete, the mode, the flag
\* and the channel
replayVars ==
  << commits, currentCommitIndex, maxAdditions, maxDeletions,
     loadingComplete, diffState, autoProgress, chan, chanClosed >>

\* C32: a tick with auto-progress off is handled without receiving: list,
\* cursor, maxima, loadingComplete, mode, flag and channel are as before,
\* also when the channel has been closed; the channel never holds more than
\* 100 records, and while it holds 100 the fetcher's send cannot proceed.
C32_PausedTickChangesNothing ==
  /\ Len(chan) <= ChanCap
  /\ (Running /\ ~autoProgress /\ ticks > 0) =>
       ENABLED Tick /\ ~ENABLED (Tick /\ replayVars' # replayVars)
  /\ (~autoProgress /\ fpc = "send" /\ Len(chan) = ChanCap) =>
       ~ENABLED FetchSend

\* two records were integrated before auto-progress was turned off; the
\* fetcher then read the listing to its end and closed the channel with
\* 100 records waiting; loadingComplete is not set
C32_Witness ==
  /\ Running
  /\ ~autoProgress
  /\ ticks > 0
  /\ chanClosed
  /\ Len(chan) = ChanCap
  /\ Len(commits) = 2
  /\ ~loadingComplete

(* ---------------------------------------------------------------------- *)
(* C33                                                                     *)
(* ---------------------------------------------------------------------- *)
\* the record the fetcher sends for the line h of the listing
SentRecord(h) == NewRecord(h, ObjectOfKind(scanned[h]))

\* the list holds the records sent first, integrated one after the other,
\* and the channel the records sent after them, as they were sent
ListThenChannelIsSent ==
  /\ Len(commits) + Len(chan) = commitCount
  /\ \A i \in 1..Len(commits) :
       /\ commits[i].Hash = ReadableLines[i]
       /\ SansDiff(commits[i]) =
            Integrate(SubSeq(commits, 1, i - 1), SentRecord(commits[i].Hash))
  /\ \A j \in 1..Len(chan) :
       /\ chan[j].Hash = ReadableLines[Len(commits) + j]
       /\ chan[j] = SentRecord(chan[j].Hash)

\* C33: the commit list followed by the channel is the sequence of the
\* records sent so far, in the order they were sent; a step takes none of
\* the list away and changes no record of it but for the cached diff text,
\* and the listing read so far only grows.
C33_ListThenQueueIsPushedSequence ==
  /\ []ListThenChannelIsSent
  /\ [][/\ Len(commits') >= Len(commits)
        /\ \A i \in 1..Len(commits) :
             SansDiff(commits'[i]) = SansDiff(commits[i])
        /\ Len(scanned') >= Len(scanned)
        /\ SubSeq(scanned', 1, Len(scanned)) = scanned]_vars

\* the first commit is listed with its diff cached while the second waits
\* in the channel
C33_Witness ==
  /\ Len(commits) = 1
  /\ commits[1].DiffContent # ""
  /\ Len(chan) = 1
  /\ chan[1].Hash = 2

(* ---------------------------------------------------------------------- *)
(* C34                                                                     *)
(* ---------------------------------------------------------------------- *)
\* C34: the cursor is 0 while the list is empty and an index of the list
\* otherwise, in every state reached by ticks, the keys of both modes and
\* window sizes.
C34_CursorIsValidIndex ==
  IF commits = << >>
    THEN currentCommitIndex = 0
    ELSE currentCommitIndex \in 0..(Len(commits) - 1)

\* the diff view was opened on the first of two commits and "right" moved
\* the cursor to the last
C34_Witness ==
  /\ Running
  /\ diffState = inDiffView
  /\ Len(commits) = 2
  /\ entryIndex = 0
  /\ currentCommitIndex = 1

(* ---------------------------------------------------------------------- *)
(* C35                                                                     *)
(* ---------------------------------------------------------------------- *)
\* C35: "enter" never indexes the commit list out of range, on the empty
\* list with auto-progress off in particular, and the diff view it opens
\* never fetches a diff before m.repo is assigned.
C35_EnterNeverIndexesOutOfRange ==
  [][(\E ok \in BOOLEAN : KeyEnter(ok)) =>
       /\ ui' # "panic"
       /\ diffState' = inDiffView => repoSet]_vars

(* ---------------------------------------------------------------------- *)
(* C36                                                                     *)
(* ---------------------------------------------------------------------- *)
\* C36: the year pointer is an index of the year list in every state, and
\* neither "up" nor "down" indexes the year list out of range.
C36_YearPointerIsValidIndex ==
  /\ [](availableStatYears # << >> =>
          currentStatYearIndex \in 0..(Len(availableStatYears) - 1))
  /\ [][(KeyYearUp \/ KeyYearDown) => ui' # "panic"]_vars

\* the "up" key indexes the year list out of range
YearKeyPanics ==
  /\ ui = "panic"
  /\ currentStatYearIndex >= Len(availableStatYears)

(* ---------------------------------------------------------------------- *)
(* C37                                                                     *)
(* ---------------------------------------------------------------------- *)
\* C37: once View has drawn the dashboard, the selected year is the entry
\* of the year list at the year pointer, and it is all-time or the year of
\* a commit up to the cursor.
C37_SelectedYearIsPointedEntry ==
  (Running /\ diffState = notInDiffView /\ commits # << >>) =>
    /\ currentStatYearIndex < Len(availableStatYears)
    /\ displayedStatsYear = availableStatYears[currentStatYearIndex + 1]
    /\ \/ displayedStatsYear = 0
       \/ \E i \in 0..currentCommitIndex :
            commits[i + 1].Year = displayedStatsYear

(* ---------------------------------------------------------------------- *)
(* C38                                                                     *)
(* ---------------------------------------------------------------------- *)
\* text is the diff of the commit at idx of the list cs, cached on it, or
\* the error text of a fetch that cached nothing
IsDiffOf(text, cs, idx) ==
  /\ idx \in 0..(Len(cs) - 1)
  /\ \/ text = DiffTextOf(cs[idx + 1].Kind) /\ cs[idx + 1].DiffContent = text
     \/ text = ErrorText /\ cs[idx + 1].DiffContent = ""

\* C38: while the diff view is open the diff shown is the diff of the
\* commit at the cursor, or the error text of its failed fetch, whatever
\* ticks, scroll keys and "left"/"right" came before; "enter" opening the
\* diff view fetches the diff of the commit at the cursor, which it leaves
\* in place, and sets the scroll offset to 0.
C38_DiffShownIsOfCursor ==
  /\ []((Running /\ diffState = inDiffView) =>
          IsDiffOf(currentDiff, commits, currentCommitIndex))
  /\ [][((\E ok \in BOOLEAN : KeyEnter(ok)) /\ diffState' = inDiffView
            /\ ui' = "running") =>
          /\ currentCommitIndex' = currentCommitIndex
          /\ diffScroll' = 0
          /\ IsDiffOf(currentDiff', commits', currentCommitIndex)]_vars

\* the diff view was opened on the first of two commits of different
\* kinds, "right" moved to the second, whose diff is shown, and "down"
\* scrolled it
C38_Witness ==
  /\ Running
  /\ diffState = inDiffView
  /\ Len(commits) = 2
  /\ commits[1].Kind # commits[2].Kind
  /\ entryIndex = 0
  /\ currentCommitIndex = 1
  /\ currentDiff = DiffTextOf(commits[2].Kind)
  /\ diffScroll = 1

(* ---------------------------------------------------------------------- *)
(* C39                                                                     *)
(* ---------------------------------------------------------------------- *)
\* the record of line h waits in the channel; it is in the list
Queued(h) == \E j \in 1..Len(chan) : chan[j].Hash = h
Listed(h) == \E i \in 1..Len(commits) : commits[i].Hash = h

\* every record sent is integrated in the end
EverySentIsIntegrated == \A h \in 1..FetchHashes : Queued(h) ~> Listed(h)

\* the fetcher does not wait at its send for ever
SendNeverStarves == (fpc = "send") ~> (fpc # "send")

\* C39: with auto-progress on, ticks handled and the fetcher scheduled
\* fairly, every record sent is integrated in the end, the fetcher does not
\* wait at a send for ever, and loadingComplete becomes true in the end.
C39_EverythingIntegratedLoadingCompletes ==
  /\ EverySentIsIntegrated
  /\ SendNeverStarves
  /\ <>loadingComplete

(* ---------------------------------------------------------------------- *)
(* C40                                                                     *)
(* ---------------------------------------------------------------------- *)
\* the cursor is on the last commit of the list
CursorAtLast == currentCommitIndex = Len(commits) - 1

\* C40: whenever auto-progress is on, with ticks handled, the cursor is on
\* the last commit of the list in the end unless auto-progress is turned
\* off first, also once the channel has been closed and emptied.
C40_AutoAdvanceReachesLast ==
  (Running /\ autoProgress /\ commits # << >>) ~> (CursorAtLast \/ ~autoProgress)

====
